---- MODULE Spec2Model ----
(***************************************************************************)
(* Deployment pipeline of Com-Factory-Deployment-Script.                   *)
(*                                                                         *)
(* Spec      : DeploymentOrchestrator.deploy_full, with the polling loops  *)
(*             of AWSCloudFrontService inlined as steps, run against a     *)
(*             provider (ACM, CloudFront, Route53) that changes state on   *)
(*             its own.                                                    *)
(* SpecRetry : one call of a tenacity-wrapped registrar operation          *)
(*             (GoDaddyClient / DNSimpleClient).                           *)
(* SpecDns   : callers of AWSDomainService's hosted-zone and record        *)
(*             methods, side by side against one Route53 account.          *)
(* SpecRuns  : two runs (deploy_full or the aws-cdn-create command)        *)
(*             against one AWS account: the requests they send to ACM,     *)
(*             Route53 and CloudFront.                                     *)
(* SpecWaits : Spec with weak fairness of the steps of the polling loops.  *)
(* SpecPurchase : DomainService.purchase_domain_workflow.                  *)
(*                                                                         *)
(* Time is in seconds and is measured from the entry of the polling loop   *)
(* in progress (the loops only compare time.time() with a deadline they    *)
(* compute on entry).  time.sleep(n) advances the clock by n; the SDK      *)
(* calls themselves take no time.                                          *)
(***************************************************************************)
EXTENDS Integers, Sequences, FiniteSets, TLC

(***************************************************************************)
(* Bounds of the model.                                                    *)
(***************************************************************************)
MaxTimeoutMinutes == 2
MaxCalls == 2
MaxClock == 2

Domains == {"my-app.com", "shop.io"}

BUCKET == "my-website-bucket"

CertArns == {"arn:acm:cert/1", "arn:acm:cert/2"}

DistIds == {"E1ABCXYZ", "E2DEFUVW"}

(***************************************************************************)
(* Program constants.                                                      *)
(***************************************************************************)
\* get_acm_validation_records(cert_arn, timeout_seconds=60)
RecordsTimeoutSeconds == 60

\* time.sleep(5) in get_acm_validation_records
RecordsPollInterval == 5

\* poll_interval = 30 in wait_for_certificate
CertPollInterval == 30

\* poll_interval = 60 in wait_for_distribution
DistPollInterval == 60

\* timeout_minutes * 60
SecondsPerMinute == 60
ReadAttempts == 3
PurchaseAttempts == 2
WaitMultiplier == 1
WaitMin == 2
WaitMax == 10

\* certificate statuses named by wait_for_certificate
TerminalStatuses == {"FAILED", "REVOKED", "EXPIRED"}

\* every status ACM reports; the two that wait_for_certificate does not name
\* keep it waiting
CertStatuses == {"PENDING_VALIDATION", "ISSUED", "VALIDATION_TIMED_OUT"} \cup TerminalStatuses

\* The build/upload collaborator is replaced by a double in the pipeline
\* tests (patch("...deployment_orchestrator.DeploymentService")); a run uses
\* either the class of deployment_service.py or such a double.
Patchable == {"DeploymentService"}

\* DeploymentService.__init__(self, app_directory)
DeploymentServiceInitParams == {"app_directory"}

\* AWSDomainService.register_domain(self, domain, contact_info, duration=1)
RegisterDomainParams == {"domain", "contact_info", "duration"}

VARIABLES
    doubles,            \* classes replaced by test doubles in this run
    req,                \* arguments of deploy_full
    pc,                 \* position of deploy_full
    calls,              \* service calls made so far, in order
    cert_arn,           \* local of deploy_full
    validation_records, \* local of deploy_full
    dist_id,            \* local of deploy_full
    dist_domain,        \* local of deploy_full
    result,             \* value returned by deploy_full
    error,              \* exception raised by deploy_full
    failedStep,         \* the step whose exception ended the run
    now,                \* time.time()
    deadline,           \* local of the polling loop in progress
    loop,               \* the polling function entered last
    log,                \* its polls and sleeps, in order
    outcome,            \* how it ended; "" while it runs
    issuedSeen,         \* certificates a poll of this run saw ISSUED
    certStatus,         \* ACM: status of every certificate
    dvReady,            \* ACM: domain names whose validation record is published
    distributions,      \* CloudFront: distributions created
    distStatus,         \* CloudFront: status of every distribution
    zoneRecords,        \* Route53: record sets of the domain's hosted zone
    rop,                \* retry: the wrapped operation being called
    rpc,                \* retry: position of the wrapper
    attempts,           \* retry: outcome of every attempt made
    requests,           \* retry: HTTP requests sent by the operation's body
    waits,              \* retry: backoff waits made, in seconds
    rresult,            \* retry: what the call gave its caller
    script,             \* retry: the registrar's answer to the operation's own
                        \* request, attempt by attempt
    registrant,         \* retry: a registrant id is supplied or configured
    hostedZones,        \* dns: Route53's hosted zones, in order of creation
    clock,              \* dns: what time.time() reads
    dpc,                \* dns: where each caller of AWSDomainService stands
    dcall,              \* dns: the call each caller is running
    dzone,              \* dns: hosted_zone_id of each caller
    dret,               \* dns: the finished calls of each caller, in order
    runs,               \* runs: where each run stands and what it holds
    certificates,       \* runs: the certificates ACM holds
    r53Zones,           \* runs: Route53's hosted zones
    cfDistributions,    \* runs: CloudFront's distributions
    wallClock,          \* runs: what time.time() reads
    wpc,                \* purchase: position in purchase_domain_workflow
    wreq,               \* purchase: the arguments and the environment
    wlog,               \* purchase: calls to the client and prompts, in order
    wout                \* purchase: what the workflow gave its caller

pipeVars == <<doubles, req, pc, calls, cert_arn, validation_records, dist_id,
              dist_domain, result, error, failedStep, now, deadline, loop, log,
              outcome, issuedSeen, certStatus, dvReady, distributions,
              distStatus, zoneRecords>>

retryVars == <<rop, rpc, attempts, requests, waits, rresult, script, registrant>>

dnsVars == <<hostedZones, clock, dpc, dcall, dzone, dret>>

runVars == <<runs, certificates, r53Zones, cfDistributions, wallClock>>

buyVars == <<wpc, wreq, wlog, wout>>

vars == <<pipeVars, retryVars, dnsVars, runVars, buyVars>>

(***************************************************************************)
(* Exceptions.                                                             *)
(***************************************************************************)
NoExc == [kind |-> "", msg |-> ""]

NoError == [kind |-> "", msg |-> "", cause |-> NoExc]

NoResult == [url |-> "", distribution_id |-> "", distribution_domain |-> "", certificate_arn |-> ""]

Exc(kind, msg) == [kind |-> kind, msg |-> msg]

\* str(exc) of an exception built from one message argument
Str(exc) == exc.msg

\* a wrapper that drops the text of the exception it wraps
OrchestratorErrorFixedText(exc) ==
    [kind |-> "OrchestratorError", msg |-> "Deployment pipeline failed", cause |-> exc]

\* raise OrchestratorError(str(exc)) from exc
OrchestratorError(exc) == [kind |-> "OrchestratorError", msg |-> Str(exc), cause |-> exc]

\* an exception that leaves deploy_full as it is
Unwrapped(exc) == [kind |-> exc.kind, msg |-> exc.msg, cause |-> NoExc]

\* Python keyword binding: a call passing a keyword the signature lacks
\* raises TypeError
Binds(keywords, params) == keywords \subseteq params

(***************************************************************************)
(* deploy_full: the order of the steps inside the try block.               *)
(***************************************************************************)
\* the cut-over step placed before the creation of the distribution
StepsCutoverFirst ==
    <<"install_dependencies", "register_domain", "run_build", "deploy_s3",
      "request_ssl_certificate", "get_acm_validation_records",
      "add_acm_dns_records", "wait_for_certificate",
      "setup_cloudfront_dns", "create_s3_distribution",
      "wait_for_distribution", "return">>

\* the upload placed before the build
StepsUploadFirst ==
    <<"install_dependencies", "register_domain", "deploy_s3", "run_build",
      "request_ssl_certificate", "get_acm_validation_records",
      "add_acm_dns_records", "wait_for_certificate",
      "create_s3_distribution", "setup_cloudfront_dns",
      "wait_for_distribution", "return">>

\* the validation records written before they are fetched
StepsWriteBeforeRecords ==
    <<"install_dependencies", "register_domain", "run_build", "deploy_s3",
      "request_ssl_certificate", "add_acm_dns_records",
      "get_acm_validation_records", "wait_for_certificate",
      "create_s3_distribution", "setup_cloudfront_dns",
      "wait_for_distribution", "return">>

Steps == <<"install_dependencies", "register_domain", "run_build", "deploy_s3",
           "request_ssl_certificate", "get_acm_validation_records",
           "add_acm_dns_records", "wait_for_certificate",
           "create_s3_distribution", "setup_cloudfront_dns",
           "wait_for_distribution", "return">>

IndexOf(step) == CHOOSE i \in 1..Len(Steps) : Steps[i] = step

\* the distribution created right after the validation records are written
AfterSkippingWait(step) ==
    IF step = "add_acm_dns_records" THEN "create_s3_distribution"
    ELSE Steps[IndexOf(step) + 1]

\* the statement that follows a step that returned
After(step) == Steps[IndexOf(step) + 1]

\* while time.time() <= deadline
BeforeDeadlineInclusive(t, d) == t <= d

\* while time.time() < deadline
BeforeDeadline(t, d) == t < d

\* a loop that stops waiting at any status other than PENDING_VALIDATION
CertPollVerdictNotPending(status) ==
    IF status \in TerminalStatuses THEN "raise"
    ELSE IF status # "PENDING_VALIDATION" THEN "return"
    ELSE "sleep"

\* a loop that does not treat EXPIRED as terminal
CertPollVerdictNoExpired(status) ==
    IF status = "ISSUED" THEN "return"
    ELSE IF status \in {"FAILED", "REVOKED"} THEN "raise"
    ELSE "sleep"

\* wait_for_certificate: what one observed status makes the loop do
CertPollVerdict(status) ==
    IF status = "ISSUED" THEN "return"
    ELSE IF status \in TerminalStatuses THEN "raise"
    ELSE "sleep"

\* wait_for_distribution: what one observed status makes the loop do
DistPollVerdictNotNone(status) == IF status # "NONE" THEN "return" ELSE "sleep"
DistPollVerdict(status) == IF status = "Deployed" THEN "return" ELSE "sleep"

\* a result built with the plain-HTTP scheme
DeployResultHttp(domain, id, host, arn) ==
    [url |-> "http://" \o domain, distribution_id |-> id,
     distribution_domain |-> host, certificate_arn |-> arn]

\* the dict deploy_full returns
DeployResult(domain, id, host, arn) ==
    [url |-> "https://" \o domain, distribution_id |-> id,
     distribution_domain |-> host, certificate_arn |-> arn]

(***************************************************************************)
(* Provider-side values.                                                   *)
(***************************************************************************)
\* names on the certificate: DomainName and SubjectAlternativeNames
CertNames(domain) == <<domain, "www." \o domain>>

\* the CNAME that proves control of one name
ValidationRecord(name) == [name |-> "_acm." \o name, value |-> "_token." \o name]

RecordsFromEveryName(names, ready) ==
    [i \in 1..Len(names) |-> ValidationRecord(names[i])]
RECURSIVE RecordsFrom(_, _)
\* records = [rr for dv in DomainValidationOptions if dv.get("ResourceRecord")]
RecordsFrom(names, ready) ==
    IF names = <<>> THEN <<>>
    ELSE (IF Head(names) \in ready THEN <<ValidationRecord(Head(names))>> ELSE <<>>)
         \o RecordsFrom(Tail(names), ready)

\* hostname CloudFront gives a distribution
DistDomainOf(id) == id \o ".cloudfront.net"

\* "redirect-to-https" if certificate_arn else "allow-all"
ViewerProtocolPolicyAllowAll(certificate_arn) == "allow-all"
ViewerProtocolPolicy(certificate_arn) ==
    IF certificate_arn # "" THEN "redirect-to-https" ELSE "allow-all"

\* AliasTarget.HostedZoneId of every CloudFront distribution
cloudfront_hosted_zone_id == "Z2FDTNDATAQYW2"

\* viewer_certificate: the ACM certificate if certificate_arn, else the
\* CloudFront default certificate (None and "" are both falsy)
ViewerCertificateDefault(certificate_arn) ==
    [ACMCertificateArn |-> "", CloudFrontDefaultCertificate |-> TRUE]
ViewerCertificate(certificate_arn) ==
    IF certificate_arn # ""
    THEN [ACMCertificateArn |-> certificate_arn,
          CloudFrontDefaultCertificate |-> FALSE]
    ELSE [ACMCertificateArn |-> "", CloudFrontDefaultCertificate |-> TRUE]

\* Route53 UPSERT of one record set
Upsert(zone, rec) ==
    {r \in zone : ~(r.name = rec.name /\ r.type = rec.type)} \cup {rec}

RECURSIVE UpsertAll(_, _)
UpsertAll(zone, recs) ==
    IF recs = <<>> THEN zone ELSE UpsertAll(Upsert(zone, Head(recs)), Tail(recs))

\* "Changes" of add_acm_dns_records
AcmChanges(records) ==
    [i \in 1..Len(records) |->
        [name |-> records[i].name, type |-> "CNAME", value |-> records[i].value,
         alias |-> ""]]

\* "Changes" of setup_cloudfront_dns
CutoverChangesApexCname(domain, host) ==
    <<[name |-> domain, type |-> "CNAME", value |-> host, alias |-> ""],
      [name |-> "www." \o domain, type |-> "CNAME", value |-> host,
       alias |-> ""]>>
CutoverChanges(domain, host) ==
    <<[name |-> domain, type |-> "A", value |-> host,
       alias |-> cloudfront_hosted_zone_id],
      [name |-> "www." \o domain, type |-> "CNAME", value |-> host,
       alias |-> ""]>>

(***************************************************************************)
(* Route53 hosted zones.  A domain name is its text without trailing dots  *)
(* and the number of trailing dots; Route53 stores zone names with one.    *)
(***************************************************************************)
Callers == {"c1", "c2"}
Name(base, dots) == [base |-> base, dots |-> dots]
DnsNames == {Name("my-app.com", 0), Name("my-app.com", 1)}
Text(n) == IF n.dots = 0 THEN n.base ELSE n.base \o "."
rstrip(n) == Name(n.base, 0)
Hosts == {DistDomainOf(d) : d \in DistIds}

HostedZone(id, n, ref) ==
    [Id |-> id, Name |-> Name(n.base, 1), CallerReference |-> ref,
     records |-> {}]
ExistingZones ==
    {<<>>, <<HostedZone(1, Name("shop.io", 0), 0)>>,
     <<HostedZone(1, Name("my-app.com", 0), 0)>>}

\* Route53 lists zones ordered by name (labels reversed: com.my-app before
\* io.shop), beginning at DNSName
NameRank(n) == IF n.base = "my-app.com" THEN 1 ELSE 2
list_hosted_zones_by_name(zones, DNSName) ==
    SelectSeq(zones, LAMBDA z : NameRank(z.Name) = NameRank(DNSName))
    \o SelectSeq(zones, LAMBDA z : NameRank(z.Name) > NameRank(DNSName))

\* zone['Name'].rstrip('.') == domain.rstrip('.')
ZoneMatchesAnyName(zone, domain) == TRUE
ZoneMatches(zone, domain) == rstrip(zone.Name) = rstrip(domain)

\* Route53 refuses a CallerReference it has seen
RefSeen(zones, ref) == \E i \in 1..Len(zones) : zones[i].CallerReference = ref

\* 'Action' of every change the service sends
ChangeActionCreate == "CREATE"
ChangeAction == "UPSERT"

\* Route53 applies a change batch as a whole, or refuses it
Refused(records, action, rrsets) ==
    /\ action = "CREATE"
    /\ \E i \in 1..Len(rrsets) : \E r \in records :
          r.name = rrsets[i].name /\ r.type = rrsets[i].type
change_resource_record_sets(records, action, rrsets) ==
    IF Refused(records, action, rrsets) THEN records
    ELSE UpsertAll(records, rrsets)

(***************************************************************************)
(* Initial states.                                                         *)
(***************************************************************************)
Requests ==
    [domain : Domains, install : BOOLEAN, contact_info : BOOLEAN,
     cert_timeout_minutes : 0..MaxTimeoutMinutes,
     distribution_timeout_minutes : 0..MaxTimeoutMinutes]

\* What a finished call hands to its caller.  An exception is identified by
\* the attempt that raised it (the object carries that attempt's message).
NoOutcome == [status |-> "", kind |-> "", attempt |-> 0]
Returned(tries) == [status |-> "returned", kind |-> "ok", attempt |-> Len(tries)]
reraiseRetryError(tries) == [status |-> "raised", kind |-> "RetryError", attempt |-> 0]
reraise(tries) ==
    [status |-> "raised", kind |-> tries[Len(tries)], attempt |-> Len(tries)]

RetryIdle ==
    /\ rop = "" /\ rpc = "off" /\ attempts = <<>> /\ requests = <<>>
    /\ waits = <<>> /\ rresult = NoOutcome /\ script = <<>>
    /\ registrant = TRUE

NoCall == [op |-> "", domain |-> Name("", 0), host |-> "", created |-> FALSE]
DnsIdle ==
    /\ hostedZones = <<>> /\ clock = 1
    /\ dpc = [c \in Callers |-> "idle"]
    /\ dcall = [c \in Callers |-> NoCall]
    /\ dzone = [c \in Callers |-> 0]
    /\ dret = [c \in Callers |-> <<>>]

Runs == {"r1", "r2"}
NoRun == [kind |-> "", domain |-> "", pc |-> "idle", prior |-> FALSE,
          token |-> <<>>, cert_arn |-> "", zone |-> 0, dist_id |-> "",
          failedStep |-> "", cause |-> ""]
RunsIdle ==
    /\ runs = [r \in Runs |-> NoRun]
    /\ certificates = {} /\ r53Zones = {} /\ cfDistributions = {}
    /\ wallClock = 1

NoPurchase == [status |-> "", kind |-> "", msg |-> ""]
BuyIdle ==
    /\ wpc = "off"
    /\ wreq = [valid |-> TRUE, confirm_purchase |-> TRUE, production |-> FALSE]
    /\ wlog = <<>>
    /\ wout = NoPurchase

PipeStart ==
    /\ calls = <<>> /\ cert_arn = "" /\ validation_records = <<>>
    /\ dist_id = "" /\ dist_domain = ""
    /\ result = NoResult /\ error = NoError /\ failedStep = ""
    /\ now = 0 /\ deadline = 0
    /\ loop = "" /\ log = <<>> /\ outcome = "" /\ issuedSeen = {}
    /\ certStatus = [a \in CertArns |-> "NONE"]
    /\ dvReady = {}
    /\ distributions = {} /\ distStatus = [d \in DistIds |-> "NONE"]
    /\ zoneRecords = {}

Init ==
    /\ doubles \in SUBSET Patchable
    /\ req \in Requests
    /\ pc = "construct"
    /\ PipeStart
    /\ RetryIdle
    /\ DnsIdle
    /\ RunsIdle
    /\ BuyIdle

(***************************************************************************)
(* deploy_full, statement by statement.                                    *)
(***************************************************************************)
Call(c) == calls' = Append(calls, c)

\* an exception raised inside the try block: except Exception as exc
Raise(step, exc) ==
    /\ pc' = "failed"
    /\ error' = OrchestratorError(exc)
    /\ failedStep' = step
    /\ result' = result

Goto(step) == pc' = step /\ UNCHANGED <<error, failedStep, result>>

provider == <<certStatus, dvReady, distributions, distStatus, zoneRecords>>

locals == <<cert_arn, validation_records, dist_id, dist_domain>>

polling == <<now, deadline, loop, log, outcome, issuedSeen>>

\* deploy_svc = DeploymentService(Path(app_dir), config=self.config), before
\* the try block
Construct ==
    /\ pc = "construct"
    /\ IF "DeploymentService" \in doubles
          \/ Binds({"app_directory", "config"}, DeploymentServiceInitParams)
       THEN Goto(Steps[1])
       ELSE /\ pc' = "failed"
            /\ error' = Unwrapped(Exc("TypeError", "__init__() got an unexpected keyword argument 'config'"))
            /\ failedStep' = "construct"
            /\ result' = result
    /\ UNCHANGED <<doubles, req, calls, locals, polling, provider, retryVars, dnsVars, runVars, buyVars>>

\* Step 1: if install: deploy_svc.install_dependencies()
install_dependencies ==
    /\ pc = "install_dependencies"
    /\ IF req.install
       THEN /\ Call([op |-> "install_dependencies"])
            /\ \/ Goto(After("install_dependencies"))
               \/ Raise("install_dependencies", Exc("RuntimeError", "Install failed!"))
       ELSE /\ Goto(After("install_dependencies"))
            /\ calls' = calls
    /\ UNCHANGED <<doubles, req, locals, polling, provider, retryVars, dnsVars, runVars, buyVars>>

\* Step 2: if contact_info: self.dns_service.register_domain(domain=...,
\* contact_info=..., duration_years=...)
register_domain ==
    /\ pc = "register_domain"
    /\ IF req.contact_info
       THEN /\ Call([op |-> "register_domain", domain |-> req.domain,
                     keywords |-> {"domain", "contact_info", "duration_years"}])
            /\ IF Binds({"domain", "contact_info", "duration_years"}, RegisterDomainParams)
               THEN \/ Goto(After("register_domain"))
                    \/ Raise("register_domain", Exc("AWSDomainError", "Registration failed"))
               ELSE Raise("register_domain",
                          Exc("TypeError", "register_domain() got an unexpected keyword argument 'duration_years'"))
       ELSE /\ Goto(After("register_domain"))
            /\ calls' = calls
    /\ UNCHANGED <<doubles, req, locals, polling, provider, retryVars, dnsVars, runVars, buyVars>>

\* Step 3: deploy_svc.run_build(build_command=build_command)
run_build ==
    /\ pc = "run_build"
    /\ Call([op |-> "run_build"])
    /\ \/ Goto(After("run_build"))
       \/ Raise("run_build", Exc("RuntimeError", "Build failed!"))
    /\ UNCHANGED <<doubles, req, locals, polling, provider, retryVars, dnsVars, runVars, buyVars>>

\* Step 4: deploy_svc.deploy_s3(bucket_name=bucket_name, make_public=True)
deploy_s3 ==
    /\ pc = "deploy_s3"
    /\ Call([op |-> "deploy_s3", bucket_name |-> BUCKET])
    /\ \/ Goto(After("deploy_s3"))
       \/ Raise("deploy_s3", Exc("DeploymentError", "S3 deployment failed"))
    /\ UNCHANGED <<doubles, req, locals, polling, provider, retryVars, dnsVars, runVars, buyVars>>

\* Step 5: cert_arn = self.cf_service.request_ssl_certificate(domain=domain,
\* include_www=True).  ACM answers with a new certificate, or with the one an
\* earlier request with the same token made, in whatever status it is.
request_ssl_certificate ==
    /\ pc = "request_ssl_certificate"
    /\ Call([op |-> "request_ssl_certificate", domain |-> req.domain, include_www |-> TRUE])
    /\ \/ \E arn \in CertArns, s \in CertStatuses :
            /\ cert_arn' = arn
            /\ certStatus' = [certStatus EXCEPT ![arn] = s]
            /\ Goto(After("request_ssl_certificate"))
       \/ /\ Raise("request_ssl_certificate", Exc("AWSCloudFrontError", "Certificate request failed"))
          /\ UNCHANGED <<cert_arn, certStatus>>
    /\ UNCHANGED <<doubles, req, validation_records, dist_id, dist_domain, polling,
                   dvReady, distributions, distStatus, zoneRecords, retryVars, dnsVars, runVars, buyVars>>

(***************************************************************************)
(* The three polling loops of AWSCloudFrontService share one shape:        *)
(*     deadline = time.time() + timeout                                    *)
(*     while time.time() < deadline:  poll ... ; time.sleep(interval)      *)
(*     raise AWSCloudFrontError(<timeout message>)                         *)
(***************************************************************************)
Poll(status) == [ev |-> "poll", status |-> status, at |-> now]

Slept(t) == [ev |-> "sleep", status |-> "", at |-> t]

\* entry of a polling function up to the first test of the loop condition
EnterLoop(name, timeout, pollPc, timeoutExc) ==
    /\ loop' = name
    /\ log' = <<>>
    /\ now' = 0
    /\ deadline' = now' + timeout
    /\ IF BeforeDeadline(now', deadline')
       THEN Goto(pollPc) /\ outcome' = ""
       ELSE Raise(name, timeoutExc) /\ outcome' = "timeout"

\* time.sleep(interval) and the next test of the loop condition
SleepThenTest(name, interval, pollPc, timeoutExc) ==
    /\ now' = now + interval
    /\ log' = Append(log, Slept(now'))
    /\ IF BeforeDeadline(now', deadline)
       THEN Goto(pollPc) /\ outcome' = ""
       ELSE Raise(name, timeoutExc) /\ outcome' = "timeout"
    /\ UNCHANGED <<deadline, loop>>

\* a wait that treats a failed poll as one more pending poll
PollFailsThenSleeps(name, exc) ==
    /\ log' = Append(log, Poll("ClientError"))
    /\ outcome' = outcome
    /\ Goto(CASE name = "get_acm_validation_records" -> "rec_sleep"
              [] name = "wait_for_certificate" -> "cert_sleep"
              [] OTHER -> "dist_sleep")

\* except ClientError as e: raise AWSCloudFrontError(...)
PollFails(name, exc) ==
    /\ log' = Append(log, Poll("ClientError"))
    /\ outcome' = "poll_error"
    /\ Raise(name, exc)

\* raise AWSCloudFrontError(f"Certificate entered terminal state: {status}")
TerminalStateError == "AWSCloudFrontError"

\* raise AWSCloudFrontError(f"Certificate not issued within {timeout_minutes} minutes")
WaitTimeoutError == "AWSCloudFrontError"

RecordsTimeout == Exc("AWSCloudFrontError", "ACM validation records not available after 60s")

CertTimeout(minutes) ==
    Exc(WaitTimeoutError, "Certificate not issued within " \o ToString(minutes) \o " minutes")

DistTimeout(minutes) ==
    Exc("AWSCloudFrontError", "Distribution not deployed within " \o ToString(minutes) \o " minutes")

\* Step 6a: validation_records = self.cf_service.get_acm_validation_records(cert_arn)
get_acm_validation_records ==
    /\ pc = "get_acm_validation_records"
    /\ Call([op |-> "get_acm_validation_records", cert_arn |-> cert_arn])
    /\ EnterLoop("get_acm_validation_records", RecordsTimeoutSeconds, "rec_poll", RecordsTimeout)
    /\ UNCHANGED <<doubles, req, locals, issuedSeen, provider, retryVars, dnsVars, runVars, buyVars>>

\* get_acm_validation_records: one describe_certificate and the test of the
\* records found
rec_poll ==
    /\ pc = "rec_poll"
    /\ \/ /\ PollFails("get_acm_validation_records",
                       Exc("AWSCloudFrontError", "describe_certificate failed"))
          /\ UNCHANGED validation_records
       \/ LET records == RecordsFrom(CertNames(req.domain), dvReady) IN
          /\ log' = Append(log, Poll(IF records # <<>> THEN "records" ELSE "none"))
          /\ IF records # <<>>
             THEN /\ validation_records' = records
                  /\ outcome' = "returned"
                  /\ Goto(After("get_acm_validation_records"))
             ELSE /\ UNCHANGED <<validation_records, outcome>>
                  /\ Goto("rec_sleep")
    /\ UNCHANGED <<doubles, req, calls, cert_arn, dist_id, dist_domain, now, deadline,
                   loop, issuedSeen, provider, retryVars, dnsVars, runVars, buyVars>>

rec_sleep ==
    /\ pc = "rec_sleep"
    /\ SleepThenTest("get_acm_validation_records", RecordsPollInterval, "rec_poll", RecordsTimeout)
    /\ UNCHANGED <<doubles, req, calls, locals, issuedSeen, provider, retryVars, dnsVars, runVars, buyVars>>

\* Step 6b: self.dns_service.add_acm_dns_records(domain=domain,
\* validation_records=validation_records)
add_acm_dns_records ==
    /\ pc = "add_acm_dns_records"
    /\ Call([op |-> "add_acm_dns_records", domain |-> req.domain, validation_records |-> validation_records])
    /\ \/ /\ zoneRecords' = UpsertAll(zoneRecords, AcmChanges(validation_records))
          /\ Goto(After("add_acm_dns_records"))
       \/ /\ Raise("add_acm_dns_records", Exc("AWSDomainError", "ACM DNS record creation failed"))
          /\ UNCHANGED zoneRecords
       \/ /\ Raise("add_acm_dns_records", Exc("AWSDomainError", "Hosted zone operation failed"))
          /\ UNCHANGED zoneRecords
    /\ UNCHANGED <<doubles, req, locals, polling, certStatus, dvReady, distributions,
                   distStatus, retryVars, dnsVars, runVars, buyVars>>

\* Step 7: self.cf_service.wait_for_certificate(cert_arn=cert_arn,
\* timeout_minutes=cert_timeout_minutes)
wait_for_certificate ==
    /\ pc = "wait_for_certificate"
    /\ Call([op |-> "wait_for_certificate", cert_arn |-> cert_arn,
             timeout_minutes |-> req.cert_timeout_minutes])
    /\ EnterLoop("wait_for_certificate", req.cert_timeout_minutes * SecondsPerMinute,
                 "cert_poll", CertTimeout(req.cert_timeout_minutes))
    /\ UNCHANGED <<doubles, req, locals, issuedSeen, provider, retryVars, dnsVars, runVars, buyVars>>

\* wait_for_certificate: one describe_certificate and the two tests of the
\* status
cert_poll ==
    /\ pc = "cert_poll"
    /\ \/ /\ PollFails("wait_for_certificate",
                       Exc("AWSCloudFrontError", "describe_certificate failed"))
          /\ UNCHANGED issuedSeen
       \/ LET status == certStatus[cert_arn] IN
          /\ log' = Append(log, Poll(status))
          /\ issuedSeen' = IF status = "ISSUED" THEN issuedSeen \cup {cert_arn} ELSE issuedSeen
          /\ CASE CertPollVerdict(status) = "return" ->
                    /\ outcome' = "returned"
                    /\ Goto(After("wait_for_certificate"))
               [] CertPollVerdict(status) = "raise" ->
                    /\ outcome' = "terminal"
                    /\ Raise("wait_for_certificate",
                             Exc(TerminalStateError, "Certificate entered terminal state: " \o status))
               [] OTHER ->
                    /\ outcome' = outcome
                    /\ Goto("cert_sleep")
    /\ UNCHANGED <<doubles, req, calls, locals, now, deadline, loop, provider, retryVars, dnsVars, runVars, buyVars>>

cert_sleep ==
    /\ pc = "cert_sleep"
    /\ SleepThenTest("wait_for_certificate", CertPollInterval, "cert_poll",
                     CertTimeout(req.cert_timeout_minutes))
    /\ UNCHANGED <<doubles, req, calls, locals, issuedSeen, provider, retryVars, dnsVars, runVars, buyVars>>

\* Step 8: distribution = self.cf_service.create_s3_distribution(bucket_name=...,
\* domain_name=domain, certificate_arn=cert_arn)
create_s3_distribution ==
    /\ pc = "create_s3_distribution"
    /\ Call([op |-> "create_s3_distribution", bucket_name |-> BUCKET,
             domain_name |-> req.domain, certificate_arn |-> cert_arn])
    /\ \/ \E id \in DistIds :
            /\ distStatus[id] = "NONE"
            /\ distributions' = distributions \cup
                 {[id |-> id, alias |-> req.domain, certificate_arn |-> cert_arn,
                   viewer_protocol_policy |-> ViewerProtocolPolicy(cert_arn),
                   viewer_certificate |-> ViewerCertificate(cert_arn)]}
            /\ distStatus' = [distStatus EXCEPT ![id] = "InProgress"]
            /\ dist_id' = id
            /\ dist_domain' = DistDomainOf(id)
            /\ Goto(After("create_s3_distribution"))
       \/ /\ Raise("create_s3_distribution", Exc("AWSCloudFrontError", "CloudFront creation failed"))
          /\ UNCHANGED <<distributions, distStatus, dist_id, dist_domain>>
    /\ UNCHANGED <<doubles, req, cert_arn, validation_records, polling, certStatus,
                   dvReady, zoneRecords, retryVars, dnsVars, runVars, buyVars>>

\* Step 9: self.dns_service.setup_cloudfront_dns(domain=domain,
\* distribution_domain=dist_domain)
setup_cloudfront_dns ==
    /\ pc = "setup_cloudfront_dns"
    /\ Call([op |-> "setup_cloudfront_dns", domain |-> req.domain, distribution_domain |-> dist_domain])
    /\ \/ /\ zoneRecords' = UpsertAll(zoneRecords, CutoverChanges(req.domain, dist_domain))
          /\ Goto(After("setup_cloudfront_dns"))
       \/ /\ Raise("setup_cloudfront_dns", Exc("AWSDomainError", "DNS setup failed"))
          /\ UNCHANGED zoneRecords
       \/ /\ Raise("setup_cloudfront_dns", Exc("AWSDomainError", "Hosted zone operation failed"))
          /\ UNCHANGED zoneRecords
    /\ UNCHANGED <<doubles, req, locals, polling, certStatus, dvReady, distributions,
                   distStatus, retryVars, dnsVars, runVars, buyVars>>

\* Step 10: self.cf_service.wait_for_distribution(distribution_id=dist_id,
\* timeout_minutes=distribution_timeout_minutes)
wait_for_distribution ==
    /\ pc = "wait_for_distribution"
    /\ Call([op |-> "wait_for_distribution", distribution_id |-> dist_id,
             timeout_minutes |-> req.distribution_timeout_minutes])
    /\ EnterLoop("wait_for_distribution", req.distribution_timeout_minutes * SecondsPerMinute,
                 "dist_poll", DistTimeout(req.distribution_timeout_minutes))
    /\ UNCHANGED <<doubles, req, locals, issuedSeen, provider, retryVars, dnsVars, runVars, buyVars>>

\* wait_for_distribution: one get_distribution and the test of the status
dist_poll ==
    /\ pc = "dist_poll"
    /\ \/ PollFails("wait_for_distribution",
                    Exc("AWSCloudFrontError", "get_distribution failed"))
       \/ LET status == distStatus[dist_id] IN
          /\ log' = Append(log, Poll(status))
          /\ IF DistPollVerdict(status) = "return"
             THEN outcome' = "returned" /\ Goto(After("wait_for_distribution"))
             ELSE outcome' = outcome /\ Goto("dist_sleep")
    /\ UNCHANGED <<doubles, req, calls, locals, now, deadline, loop, issuedSeen,
                   provider, retryVars, dnsVars, runVars, buyVars>>

dist_sleep ==
    /\ pc = "dist_sleep"
    /\ SleepThenTest("wait_for_distribution", DistPollInterval, "dist_poll",
                     DistTimeout(req.distribution_timeout_minutes))
    /\ UNCHANGED <<doubles, req, calls, locals, issuedSeen, provider, retryVars, dnsVars, runVars, buyVars>>

\* live_url = f"https://{domain}"; return {...}
Return ==
    /\ pc = "return"
    /\ pc' = "done"
    /\ result' = DeployResult(req.domain, dist_id, dist_domain, cert_arn)
    /\ UNCHANGED <<doubles, req, calls, locals, error, failedStep, polling,
                   provider, retryVars, dnsVars, runVars, buyVars>>

(***************************************************************************)
(* The provider, while a run is in progress.                               *)
(***************************************************************************)
Running == pc \notin {"done", "failed"}

\* ACM: PENDING_VALIDATION -> ISSUED | FAILED | REVOKED | EXPIRED |
\* VALIDATION_TIMED_OUT; no other status is left
AcmChangesStatus ==
    /\ Running
    /\ \E arn \in CertArns, s \in CertStatuses \ {"PENDING_VALIDATION"} :
         /\ certStatus[arn] = "PENDING_VALIDATION"
         /\ certStatus' = [certStatus EXCEPT ![arn] = s]
    /\ UNCHANGED <<doubles, req, pc, calls, locals, result, error, failedStep, polling,
                   dvReady, distributions, distStatus, zoneRecords, retryVars, dnsVars, runVars, buyVars>>

\* ACM: publishes the validation record of one name of the certificate
AcmPublishesRecord ==
    /\ Running
    /\ cert_arn # ""
    /\ \E i \in 1..Len(CertNames(req.domain)) :
         /\ CertNames(req.domain)[i] \notin dvReady
         /\ dvReady' = dvReady \cup {CertNames(req.domain)[i]}
    /\ UNCHANGED <<doubles, req, pc, calls, locals, result, error, failedStep, polling,
                   certStatus, distributions, distStatus, zoneRecords, retryVars, dnsVars, runVars, buyVars>>

\* CloudFront: InProgress -> Deployed
CloudFrontDeploys ==
    /\ Running
    /\ \E id \in DistIds :
         /\ distStatus[id] = "InProgress"
         /\ distStatus' = [distStatus EXCEPT ![id] = "Deployed"]
    /\ UNCHANGED <<doubles, req, pc, calls, locals, result, error, failedStep, polling,
                   certStatus, dvReady, distributions, zoneRecords, retryVars, dnsVars, runVars, buyVars>>

Next ==
    \/ Construct
    \/ install_dependencies
    \/ register_domain
    \/ run_build
    \/ deploy_s3
    \/ request_ssl_certificate
    \/ get_acm_validation_records
    \/ rec_poll
    \/ rec_sleep
    \/ add_acm_dns_records
    \/ wait_for_certificate
    \/ cert_poll
    \/ cert_sleep
    \/ create_s3_distribution
    \/ setup_cloudfront_dns
    \/ wait_for_distribution
    \/ dist_poll
    \/ dist_sleep
    \/ Return
    \/ AcmChangesStatus
    \/ AcmPublishesRecord
    \/ CloudFrontDeploys

Spec == Init /\ [][Next]_vars

\* A wait is a blocking loop of one thread: once entered, its next poll or
\* sleep is executed.
InWait == pc \in {"rec_poll", "rec_sleep", "cert_poll", "cert_sleep",
                  "dist_poll", "dist_sleep"}
WaitStep ==
    rec_poll \/ rec_sleep \/ cert_poll \/ cert_sleep \/ dist_poll \/ dist_sleep
SpecWaits == Spec /\ WF_vars(WaitStep)

(***************************************************************************)
(* Registrar clients (GoDaddyClient, DNSimpleClient).                      *)
(*                                                                         *)
(* An answer of the registrar is an HTTP status code, or a negative number *)
(* standing for the exception requests.request raised instead.             *)
(***************************************************************************)
Timeout == -1
ConnectionError == -2
RequestException == -3
StatusCodes == {200, 201, 204, 400, 401, 402, 403, 404, 409, 422, 429, 500, 503}
Answers == StatusCodes \cup {Timeout, ConnectionError, RequestException}
ScriptAnswers == {200, 400, 401, 403, 404, 409, 422, 429, 503, Timeout}
PriceAnswers == {200, 503}
ContactAnswers == {201, 400, 503}
PageAnswers == {200, 401, 503}

GoDaddy_make_request(a) ==
    CASE a \in {200, 201, 204} -> "ok"
      [] a = 400 -> "ValidationError"
      [] a \in {401, 403} -> "AuthenticationError"
      [] a = 404 -> "DomainNotFoundError"
      [] a = 422 -> "DomainNotAvailableError"
      [] a = 429 -> "RateLimitError"
      [] a = 402 -> "InsufficientFundsError"
      [] a \in {Timeout, ConnectionError, RequestException} -> "NetworkError"
      [] OTHER -> IF 500 <= a /\ a < 600 THEN "ServerError" ELSE "APIError"

DNSimple_make_request(a) ==
    CASE a \in {200, 201, 204} -> "ok"
      [] a = 401 -> "AuthenticationError"
      [] a = 404 -> "DomainNotFoundError"
      [] a = 429 -> "RateLimitError"
      [] a \in {Timeout, ConnectionError} -> "NetworkError"
      [] a = RequestException -> "RequestException"
      [] OTHER -> IF a >= 500 THEN "ServerError" ELSE "APIError"

GoDaddyOps ==
    {"GoDaddy.check_availability", "GoDaddy.suggest_domains",
     "GoDaddy.get_domain_schema", "GoDaddy.validate_purchase",
     "GoDaddy.purchase_domain", "GoDaddy.get_domains",
     "GoDaddy.get_domain_details"}
DNSimpleOps ==
    {"DNSimple.get_domain_prices", "DNSimple.check_availability",
     "DNSimple.suggest_domains", "DNSimple.create_contact",
     "DNSimple.purchase_domain", "DNSimple.get_domains",
     "DNSimple.get_domain_details"}
RetryWrapped == GoDaddyOps \cup DNSimpleOps

make_request(op, a) ==
    IF op \in GoDaddyOps THEN GoDaddy_make_request(a)
    ELSE DNSimple_make_request(a)

(***************************************************************************)
(* The arguments of the @retry decorators.                                 *)
(***************************************************************************)
stop_after_attempt(op) ==
    IF op \in {"GoDaddy.purchase_domain", "DNSimple.purchase_domain"}
    THEN PurchaseAttempts
    ELSE ReadAttempts

retry_if_exception_typeAnyError(op) ==
    {"NetworkError", "ServerError", "RateLimitError", "AuthenticationError",
     "DomainNotFoundError", "DomainNotAvailableError", "ValidationError",
     "InsufficientFundsError", "APIError"}
retry_if_exception_type(op) ==
    IF op \in {"GoDaddy.check_availability", "DNSimple.get_domain_prices",
               "DNSimple.check_availability", "DNSimple.create_contact"}
    THEN {"NetworkError", "ServerError", "RateLimitError"}
    ELSE {"NetworkError", "ServerError"}

Min(a, b) == IF a < b THEN a ELSE b
Max(a, b) == IF a > b THEN a ELSE b
wait_exponential(attempt_number) ==
    Max(WaitMin, Min(WaitMultiplier * 2 ^ (attempt_number - 1), WaitMax))

(***************************************************************************)
(* One run of the body of a wrapped operation: the requests it sends and   *)
(* what it returns or raises.  `answer` is the registrar's answer to the   *)
(* operation's own request; `aux` holds the answers to the other requests  *)
(* the body may send.                                                      *)
(***************************************************************************)
Req(endpoint, page, a) == [endpoint |-> endpoint, page |-> page, answer |-> a]
Outcome(kind, reqs) == [kind |-> kind, reqs |-> reqs]

RECURSIVE Retrying(_, _, _)
Retrying(op, answers, n) ==
    LET kind == make_request(op, answers[n])
        sent == <<Req(op, 1, answers[n])>>
    IN  IF kind \in retry_if_exception_type(op) /\ n < stop_after_attempt(op)
        THEN LET rest == Retrying(op, answers, n + 1)
             IN  Outcome(rest.kind, sent \o rest.reqs)
        ELSE Outcome(kind, sent)

get_domain_prices(answers) == Retrying("DNSimple.get_domain_prices", answers, 1)

Plain(op, answer) == Outcome(make_request(op, answer), <<Req(op, 1, answer)>>)

DNSimple_check_availability(answer, aux) ==
    LET check == Plain("DNSimple.check_availability", answer)
    IN  IF check.kind = "ok" /\ aux.available
        THEN Outcome("ok", check.reqs \o get_domain_prices(aux.prices).reqs)
        ELSE check

DNSimple_suggest_domains == Outcome("NotImplementedError", <<>>)

DNSimple_create_contact(answer) ==
    LET sent == Plain("DNSimple.create_contact", answer)
    IN  IF sent.kind = "ok" THEN sent
        ELSE Outcome("ValidationError", sent.reqs)

DNSimple_purchase_domain(answer, aux) ==
    LET contact == DNSimple_create_contact(aux.contact)
        register == Plain("DNSimple.purchase_domain", answer)
    IN  IF registrant THEN register
        ELSE IF contact.kind # "ok"
             THEN Outcome("ValidationError", contact.reqs)
             ELSE Outcome(register.kind, contact.reqs \o register.reqs)

DNSimple_get_domains(answer, aux) ==
    LET first == Plain("DNSimple.get_domains", answer)
        second == Outcome(make_request("DNSimple.get_domains", aux.page),
                          <<Req("DNSimple.get_domains", 2, aux.page)>>)
    IN  IF first.kind = "ok" /\ aux.more
        THEN Outcome(second.kind, first.reqs \o second.reqs)
        ELSE first

Body(op, answer, aux) ==
    CASE op = "DNSimple.check_availability" ->
             DNSimple_check_availability(answer, aux)
      [] op = "DNSimple.suggest_domains" -> DNSimple_suggest_domains
      [] op = "DNSimple.create_contact" -> DNSimple_create_contact(answer)
      [] op = "DNSimple.purchase_domain" ->
             DNSimple_purchase_domain(answer, aux)
      [] op = "DNSimple.get_domains" -> DNSimple_get_domains(answer, aux)
      [] OTHER -> Plain(op, answer)

NoAux ==
    [available |-> FALSE, prices |-> [i \in 1..ReadAttempts |-> 200],
     contact |-> 201, more |-> FALSE, page |-> 200]
Aux(op) ==
    CASE op = "DNSimple.check_availability" ->
             {[NoAux EXCEPT !.available = x[1], !.prices = x[2]] :
                 x \in BOOLEAN \X [1..ReadAttempts -> PriceAnswers]}
      [] op = "DNSimple.purchase_domain" ->
             {[NoAux EXCEPT !.contact = a] : a \in ContactAnswers}
      [] op = "DNSimple.get_domains" ->
             {[NoAux EXCEPT !.more = x[1], !.page = x[2]] :
                 x \in BOOLEAN \X PageAnswers}
      [] OTHER -> {NoAux}

(***************************************************************************)
(* SpecRetry: tenacity's loop around one call of a wrapped operation       *)
(* (reraise=True).                                                         *)
(***************************************************************************)
InitRetry ==
    /\ doubles = {}
    /\ req = [domain |-> "my-app.com", install |-> FALSE,
              contact_info |-> FALSE, cert_timeout_minutes |-> 0,
              distribution_timeout_minutes |-> 0]
    /\ pc = "off"
    /\ PipeStart
    /\ rop \in RetryWrapped
    /\ rpc = "attempt"
    /\ attempts = <<>> /\ requests = <<>> /\ waits = <<>>
    /\ rresult = NoOutcome
    /\ script \in [1..ReadAttempts -> ScriptAnswers]
    /\ registrant \in (IF rop = "DNSimple.purchase_domain"
                       THEN BOOLEAN ELSE {TRUE})
    /\ DnsIdle
    /\ RunsIdle
    /\ BuyIdle

Attempt ==
    /\ rpc = "attempt"
    /\ \E aux \in Aux(rop) :
         LET attempt_number == Len(attempts) + 1
             body == Body(rop, script[attempt_number], aux)
         IN  /\ attempts' = Append(attempts, body.kind)
             /\ requests' = requests \o body.reqs
             /\ IF body.kind = "ok"
                THEN /\ rpc' = "done"
                     /\ rresult' = Returned(attempts')
                ELSE IF /\ body.kind \in retry_if_exception_type(rop)
                        /\ attempt_number < stop_after_attempt(rop)
                THEN /\ rpc' = "backoff"
                     /\ UNCHANGED rresult
                ELSE /\ rpc' = "done"
                     /\ rresult' = reraise(attempts')
    /\ UNCHANGED <<rop, waits, script, registrant, pipeVars, dnsVars, runVars, buyVars>>

Backoff ==
    /\ rpc = "backoff"
    /\ waits' = Append(waits, wait_exponential(Len(attempts)))
    /\ rpc' = "attempt"
    /\ UNCHANGED <<rop, attempts, requests, rresult, script, registrant,
                   pipeVars, dnsVars, runVars, buyVars>>

NextRetry ==
    \/ Attempt
    \/ Backoff

SpecRetry == InitRetry /\ [][NextRetry]_vars

(***************************************************************************)
(* SpecDns: callers of AWSDomainService (_get_or_create_hosted_zone,       *)
(* add_acm_dns_records, setup_cloudfront_dns) running side by side against *)
(* one Route53 account.  A step is what a caller does up to and including  *)
(* its next Route53 request.                                               *)
(***************************************************************************)
DnsOps ==
    {"_get_or_create_hosted_zone", "add_acm_dns_records", "setup_cloudfront_dns"}
DnsCalls ==
    {[op |-> o, domain |-> n, host |-> "", created |-> FALSE] :
        o \in DnsOps \ {"setup_cloudfront_dns"}, n \in DnsNames}
    \cup {[op |-> "setup_cloudfront_dns", domain |-> n, host |-> h,
           created |-> FALSE] : n \in DnsNames, h \in Hosts}

Started ==
    Len(dret["c1"]) + Len(dret["c2"])
        + Cardinality({c \in Callers : dpc[c] # "idle"})

\* the record sets a call writes
Changes(call) ==
    IF call.op = "add_acm_dns_records"
    THEN AcmChanges(<<ValidationRecord(Text(call.domain)),
                      ValidationRecord("www." \o Text(call.domain))>>)
    ELSE CutoverChanges(Text(call.domain), call.host)

Finished(call, zone, records, batch) ==
    [call |-> call, status |-> "returned", kind |-> "", zone |-> zone,
     records |-> records, batch |-> batch]
Failed(call, kind) ==
    [call |-> call, status |-> "raised", kind |-> kind, zone |-> 0,
     records |-> {}, batch |-> <<>>]

Finish(c, entry) ==
    /\ dret' = [dret EXCEPT ![c] = Append(@, entry)]
    /\ dpc' = [dpc EXCEPT ![c] = "idle"]
    /\ dcall' = [dcall EXCEPT ![c] = NoCall]
    /\ dzone' = [dzone EXCEPT ![c] = 0]

\* _get_or_create_hosted_zone has its zone id
HaveZone(c, call, id) ==
    IF call.op = "_get_or_create_hosted_zone"
    THEN Finish(c, Finished(call, id, {}, <<>>))
    ELSE /\ dpc' = [dpc EXCEPT ![c] = "change"]
         /\ dcall' = [dcall EXCEPT ![c] = call]
         /\ dzone' = [dzone EXCEPT ![c] = id]
         /\ UNCHANGED dret

ListZones(c) ==
    /\ dpc[c] = "idle"
    /\ Started < MaxCalls
    /\ \E call \in DnsCalls :
         LET zones == list_hosted_zones_by_name(hostedZones, call.domain)
             found == SelectSeq(zones, LAMBDA z : ZoneMatches(z, call.domain))
         IN  IF found # <<>>
             THEN HaveZone(c, call, Head(found).Id)
             ELSE /\ dpc' = [dpc EXCEPT ![c] = "create"]
                  /\ dcall' = [dcall EXCEPT ![c] = call]
                  /\ UNCHANGED <<dzone, dret>>
    /\ UNCHANGED <<hostedZones, clock, pipeVars, retryVars, runVars, buyVars>>

CreateZone(c) ==
    /\ dpc[c] = "create"
    /\ LET caller_ref == clock
           id == Len(hostedZones) + 1
       IN  IF RefSeen(hostedZones, caller_ref)
           THEN /\ Finish(c, Failed(dcall[c], "AWSDomainError"))
                /\ UNCHANGED hostedZones
           ELSE /\ hostedZones' =
                      Append(hostedZones,
                             HostedZone(id, dcall[c].domain, caller_ref))
                /\ HaveZone(c, [dcall[c] EXCEPT !.created = TRUE], id)
    /\ UNCHANGED <<clock, pipeVars, retryVars, runVars, buyVars>>

ChangeRecordSets(c) ==
    /\ dpc[c] = "change"
    /\ LET z == dzone[c]
           rrsets == Changes(dcall[c])
           old == hostedZones[z].records
           new == change_resource_record_sets(old, ChangeAction, rrsets)
       IN  IF Refused(old, ChangeAction, rrsets)
           THEN /\ Finish(c, Failed(dcall[c], "AWSDomainError"))
                /\ UNCHANGED hostedZones
           ELSE /\ hostedZones' = [hostedZones EXCEPT ![z].records = new]
                /\ Finish(c, Finished(dcall[c], z, new, rrsets))
    /\ UNCHANGED <<clock, pipeVars, retryVars, runVars, buyVars>>

\* time passes; only a caller about to compute str(time.time()) can tell
Tick ==
    /\ clock < MaxClock
    /\ \E c \in Callers : dpc[c] = "create"
    /\ clock' = clock + 1
    /\ UNCHANGED <<hostedZones, dpc, dcall, dzone, dret, pipeVars, retryVars, runVars, buyVars>>

InitDns ==
    /\ doubles = {}
    /\ req = [domain |-> "my-app.com", install |-> FALSE,
              contact_info |-> FALSE, cert_timeout_minutes |-> 0,
              distribution_timeout_minutes |-> 0]
    /\ pc = "off"
    /\ PipeStart
    /\ RetryIdle
    /\ RunsIdle
    /\ BuyIdle
    /\ hostedZones \in ExistingZones
    /\ clock = 1
    /\ dpc = [c \in Callers |-> "idle"]
    /\ dcall = [c \in Callers |-> NoCall]
    /\ dzone = [c \in Callers |-> 0]
    /\ dret = [c \in Callers |-> <<>>]

NextDns ==
    \/ \E c \in Callers : ListZones(c)
    \/ \E c \in Callers : CreateZone(c)
    \/ \E c \in Callers : ChangeRecordSets(c)
    \/ Tick

SpecDns == InitDns /\ [][NextDns]_vars

(***************************************************************************)
(* Runs against one AWS account: deploy_full (the requests it sends to     *)
(* ACM, Route53 and CloudFront, step by step) and the aws-cdn-create        *)
(* command, which calls create_s3_distribution without a certificate.      *)
(***************************************************************************)
RunDomains ==
    {"my-app.com",
     "my.app.com",
     "a-very-long-company-name-exampl.com",
     "a-very-long-company-name-exampl.net"}
RunKinds == {"deploy_full", "cdn_create"}

\* a domain, character by character
Chars(domain) ==
    CASE domain = "my-app.com" ->
            <<"m", "y", "-", "a", "p", "p", ".", "c", "o", "m">>
      [] domain = "my.app.com" ->
            <<"m", "y", ".", "a", "p", "p", ".", "c", "o", "m">>
      [] domain = "a-very-long-company-name-exampl.com" ->
            <<"a", "-", "v", "e", "r", "y", "-", "l", "o", "n", "g", "-", "c", "o", "m", "p", "a", "n", "y", "-", "n", "a", "m", "e", "-", "e", "x", "a", "m", "p", "l", ".", "c", "o", "m">>
      [] domain = "a-very-long-company-name-exampl.net" ->
            <<"a", "-", "v", "e", "r", "y", "-", "l", "o", "n", "g", "-", "c", "o", "m", "p", "a", "n", "y", "-", "n", "a", "m", "e", "-", "e", "x", "a", "m", "p", "l", ".", "n", "e", "t">>

\* str.replace(old, new) for one-character strings
replace(str, old, new) ==
    [i \in 1..Len(str) |-> IF str[i] = old THEN new ELSE str[i]]
\* str[:n]
Slice(str, n) == SubSeq(str, 1, Min(Len(str), n))

TokenMaxLen == 32

\* "IdempotencyToken": domain.replace(".", "-")[:32]
IdempotencyToken(domain) == Slice(replace(Chars(domain), ".", "-"), TokenMaxLen)

\* ACM answers a request whose token it has seen within the idempotency
\* window with the certificate of the earlier request
DeduplicatesNever(cert, token) == FALSE
Deduplicates(cert, token) == cert.fresh /\ cert.token = token

NextArn == "arn:acm:cert/" \o ToString(Cardinality(certificates) + 1)
NextZoneId == Cardinality(r53Zones) + 1
NextDistId == "E" \o ToString(Cardinality(cfDistributions) + 1)

\* the pipeline steps that talk to AWS, in order
RunSteps ==
    <<"request_ssl_certificate", "get_acm_validation_records",
      "add_acm_dns_records", "wait_for_certificate",
      "create_s3_distribution", "setup_cloudfront_dns",
      "wait_for_distribution", "done">>
RunAfter(step) ==
    RunSteps[(CHOOSE i \in 1..Len(RunSteps) : RunSteps[i] = step) + 1]

Other(r) == CHOOSE o \in Runs : o # r
Active(r) == runs[r].pc \notin {"idle", "done", "failed"}

RunGoto(r, step) == runs' = [runs EXCEPT ![r].pc = step]
RunRaise(r, cause) ==
    runs' = [runs EXCEPT ![r].pc = "failed", ![r].failedStep = runs[r].pc,
                         ![r].cause = cause]

\* deploy_full(domain=...) or aws-cdn-create --domain ... is started; runs
\* for one domain follow one another, and a run started after the other has
\* ended reads later times than the other did
Start(r) ==
    /\ runs[r].pc = "idle"
    /\ r = "r2" => runs["r1"].pc # "idle"
    /\ \E kind \in RunKinds, domain \in RunDomains :
         /\ runs[Other(r)].domain = domain => ~Active(Other(r))
         /\ runs' = [runs EXCEPT ![r] =
                [NoRun EXCEPT !.kind = kind, !.domain = domain,
                              !.prior = /\ runs[Other(r)].domain = domain
                                        /\ runs[Other(r)].kind = "deploy_full"
                                        /\ runs[Other(r)].pc = "failed",
                              !.pc = IF kind = "deploy_full"
                                     THEN "request_ssl_certificate"
                                     ELSE "create_s3_distribution"]]
    /\ wallClock' = IF runs[Other(r)].pc \in {"done", "failed"}
                    THEN wallClock + 1 ELSE wallClock
    /\ UNCHANGED <<certificates, r53Zones, cfDistributions,
                   pipeVars, retryVars, dnsVars, buyVars>>

\* acm_client.request_certificate(DomainName, IdempotencyToken, ...)
RequestCertificate(r) ==
    /\ runs[r].pc = "request_ssl_certificate"
    /\ LET token == IdempotencyToken(runs[r].domain)
           seen == {c \in certificates : Deduplicates(c, token)}
       IN  \/ \E c \in seen :
                /\ runs' = [runs EXCEPT ![r].token = token,
                                        ![r].cert_arn = c.arn,
                                        ![r].pc = RunAfter(runs[r].pc)]
                /\ UNCHANGED certificates
           \/ /\ \A c \in seen : c.domain # runs[r].domain
              /\ runs' = [runs EXCEPT ![r].token = token,
                                      ![r].cert_arn = NextArn,
                                      ![r].pc = RunAfter(runs[r].pc)]
              /\ certificates' = certificates \cup
                     {[arn |-> NextArn, token |-> token,
                       domain |-> runs[r].domain, fresh |-> TRUE, by |-> r]}
           \/ /\ runs' = [runs EXCEPT ![r].token = token, ![r].pc = "failed",
                                      ![r].failedStep = runs[r].pc,
                                      ![r].cause = "ClientError"]
              /\ UNCHANGED certificates
    /\ UNCHANGED <<r53Zones, cfDistributions, wallClock,
                   pipeVars, retryVars, dnsVars, buyVars>>

\* the idempotency window of a certificate request ends
WindowEnds ==
    /\ \E r \in Runs : runs[r].pc \in {"idle", "request_ssl_certificate"}
    /\ \E c \in certificates :
         /\ c.fresh
         /\ certificates' = (certificates \ {c}) \cup {[c EXCEPT !.fresh = FALSE]}
    /\ UNCHANGED <<runs, r53Zones, cfDistributions, wallClock,
                   pipeVars, retryVars, dnsVars, buyVars>>

\* get_acm_validation_records, wait_for_certificate, wait_for_distribution:
\* polls that change nothing at the provider, and return or raise
Waits(r) ==
    /\ runs[r].pc \in {"get_acm_validation_records", "wait_for_certificate",
                        "wait_for_distribution"}
    /\ \/ RunGoto(r, RunAfter(runs[r].pc))
       \/ RunRaise(r, "ClientError")
       \/ RunRaise(r, "Timeout")
    /\ UNCHANGED <<certificates, r53Zones, cfDistributions, wallClock,
                   pipeVars, retryVars, dnsVars, buyVars>>

\* _get_or_create_hosted_zone followed by change_resource_record_sets
WriteRecords(r, changes) ==
    LET found == {z \in r53Zones : z.name = runs[r].domain}
        caller_ref == wallClock
    IN  \/ \E z \in found :
             /\ r53Zones' = (r53Zones \ {z}) \cup
                    {[z EXCEPT !.records = UpsertAll(z.records, changes)]}
             /\ runs' = [runs EXCEPT ![r].zone = z.id,
                                     ![r].pc = RunAfter(runs[r].pc)]
        \/ /\ found = {}
           /\ IF \E z \in r53Zones : z.CallerReference = caller_ref
              THEN /\ RunRaise(r, "HostedZoneAlreadyExists")
                   /\ UNCHANGED r53Zones
              ELSE /\ r53Zones' = r53Zones \cup
                          {[id |-> NextZoneId, name |-> runs[r].domain,
                            CallerReference |-> caller_ref, by |-> r,
                            records |-> UpsertAll({}, changes)]}
                   /\ runs' = [runs EXCEPT ![r].zone = NextZoneId,
                                           ![r].pc = RunAfter(runs[r].pc)]
        \/ /\ RunRaise(r, "ClientError")
           /\ UNCHANGED r53Zones

\* the validation records of the certificate the run holds
RecordsOf(arn) ==
    LET cert == CHOOSE c \in certificates : c.arn = arn
    IN  <<ValidationRecord(cert.domain), ValidationRecord("www." \o cert.domain)>>

AddAcmDnsRecords(r) ==
    /\ runs[r].pc = "add_acm_dns_records"
    /\ WriteRecords(r, AcmChanges(RecordsOf(runs[r].cert_arn)))
    /\ UNCHANGED <<certificates, cfDistributions, wallClock,
                   pipeVars, retryVars, dnsVars, buyVars>>

\* CloudFront refuses an alias that one of its distributions carries
AliasTakenNever(dists, alias) == FALSE
AliasTaken(dists, alias) == \E d \in dists : d.alias = alias

\* cloudfront_client.create_distribution(DistributionConfig=...)
CreateDistribution(r) ==
    /\ runs[r].pc = "create_s3_distribution"
    /\ LET caller_ref == wallClock
           alias == runs[r].domain
           arn == runs[r].cert_arn
       IN  \/ IF \E d \in cfDistributions : d.CallerReference = caller_ref
              THEN RunRaise(r, "DistributionAlreadyExists")
                   /\ UNCHANGED cfDistributions
              ELSE IF AliasTaken(cfDistributions, alias)
              THEN RunRaise(r, "CNAMEAlreadyExists")
                   /\ UNCHANGED cfDistributions
              ELSE /\ cfDistributions' = cfDistributions \cup
                          {[id |-> NextDistId, alias |-> alias,
                            CallerReference |-> caller_ref, by |-> r,
                            certificate_arn |-> arn,
                            viewer_protocol_policy |-> ViewerProtocolPolicy(arn),
                            viewer_certificate |-> ViewerCertificate(arn)]}
                   /\ runs' = [runs EXCEPT ![r].dist_id = NextDistId,
                          ![r].pc = IF runs[r].kind = "deploy_full"
                                    THEN RunAfter(runs[r].pc) ELSE "done"]
           \/ /\ RunRaise(r, "ClientError")
              /\ UNCHANGED cfDistributions
    /\ UNCHANGED <<certificates, r53Zones, wallClock,
                   pipeVars, retryVars, dnsVars, buyVars>>

SetupCloudfrontDns(r) ==
    /\ runs[r].pc = "setup_cloudfront_dns"
    /\ WriteRecords(r, CutoverChanges(runs[r].domain, DistDomainOf(runs[r].dist_id)))
    /\ UNCHANGED <<certificates, cfDistributions, wallClock,
                   pipeVars, retryVars, dnsVars, buyVars>>

\* time passes; only a run about to compute str(time.time()) can tell
RunTick ==
    /\ wallClock < MaxClock
    /\ \E r \in Runs : runs[r].pc \in {"add_acm_dns_records",
                                        "create_s3_distribution",
                                        "setup_cloudfront_dns"}
    /\ wallClock' = wallClock + 1
    /\ UNCHANGED <<runs, certificates, r53Zones, cfDistributions,
                   pipeVars, retryVars, dnsVars, buyVars>>

InitRuns ==
    /\ doubles = {}
    /\ req = [domain |-> "my-app.com", install |-> FALSE,
              contact_info |-> FALSE, cert_timeout_minutes |-> 0,
              distribution_timeout_minutes |-> 0]
    /\ pc = "off"
    /\ PipeStart
    /\ RetryIdle
    /\ DnsIdle
    /\ RunsIdle
    /\ BuyIdle

NextRuns ==
    \/ \E r \in Runs : Start(r)
    \/ \E r \in Runs : RequestCertificate(r)
    \/ \E r \in Runs : Waits(r)
    \/ \E r \in Runs : AddAcmDnsRecords(r)
    \/ \E r \in Runs : CreateDistribution(r)
    \/ \E r \in Runs : SetupCloudfrontDns(r)
    \/ WindowEnds
    \/ RunTick

SpecRuns == InitRuns /\ [][NextRuns]_vars

(***************************************************************************)
(* DomainService.purchase_domain_workflow, statement by statement.         *)
(***************************************************************************)
\* what the client's check_availability hands back: a dictionary whose
\* "available" entry is true, false or missing, or an exception
Availabilities == {"true", "false", "missing"}
CheckErrors == {"InvalidDomainError", "NetworkError", "AuthenticationError"}
PurchaseErrors ==
    {"DomainNotAvailableError", "InsufficientFundsError", "ValidationError",
     "NetworkError"}

\* what the user types at the prompt; "EOF" is a closed standard input
Responses == {"yes", "y", "YES", "Y", "Yes", "no", "n", "", "EOF"}

\* str.lower()
lower(str) ==
    CASE str \in {"YES", "Yes"} -> "yes"
      [] str = "Y" -> "y"
      [] OTHER -> str

\* availability.get("available"), by Python truth
AvailableUnlessFalse(answer) == answer # "false"
Available(answer) == answer = "true"

\* response.lower() not in ["yes", "y"] is the refusal
Confirmed(response) == lower(response) \in {"yes", "y"}

WorkflowRequests ==
    [valid : BOOLEAN, confirm_purchase : BOOLEAN, production : BOOLEAN]

\* the except clauses of the workflow
DomainServiceError(kind, domain_msg) ==
    [status |-> "raised", kind |-> "DomainServiceError",
     msg |-> CASE kind = "DomainNotAvailableError" -> "Domain is not available"
               [] kind = "InsufficientFundsError" ->
                      "Insufficient funds in GoDaddy account"
               [] OTHER -> "Purchase failed: " \o domain_msg]

WRaise(kind, msg) == wpc' = "raised" /\ wout' = DomainServiceError(kind, msg)

\* domain = validate_domain(domain)
Validate ==
    /\ wpc = "validate"
    /\ IF wreq.valid
       THEN wpc' = "check" /\ UNCHANGED wout
       ELSE WRaise("ValidationError", "Invalid domain")
    /\ UNCHANGED <<wreq, wlog, pipeVars, retryVars, dnsVars, runVars>>

\* availability = self.client.check_availability(domain) and its test
CheckAvailability ==
    /\ wpc = "check"
    /\ \/ \E answer \in Availabilities :
            /\ wlog' = Append(wlog, [ev |-> "check_availability",
                                     answer |-> answer, response |-> ""])
            /\ IF Available(answer)
               THEN /\ wpc' = IF wreq.confirm_purchase THEN "confirm" ELSE "purchase"
                    /\ UNCHANGED wout
               ELSE WRaise("DomainServiceError", "Domain is not available for purchase")
       \/ \E kind \in CheckErrors :
            /\ wlog' = Append(wlog, [ev |-> "check_availability",
                                     answer |-> kind, response |-> ""])
            /\ WRaise(kind, kind)
    /\ UNCHANGED <<wreq, pipeVars, retryVars, dnsVars, runVars>>

\* response = input(...) and its test
Confirm ==
    /\ wpc = "confirm"
    /\ \E response \in Responses :
         /\ wlog' = Append(wlog, [ev |-> "input",
                                  answer |-> IF wreq.production THEN "REAL" ELSE "test",
                                  response |-> response])
         /\ IF response = "EOF"
            THEN WRaise("EOFError", "EOF when reading a line")
            ELSE IF Confirmed(response)
            THEN wpc' = "purchase" /\ UNCHANGED wout
            ELSE /\ wpc' = "returned"
                 /\ wout' = [status |-> "cancelled", kind |-> "", msg |-> ""]
    /\ UNCHANGED <<wreq, pipeVars, retryVars, dnsVars, runVars>>

\* result = self.client.purchase_domain(...)
Purchase ==
    /\ wpc = "purchase"
    /\ \/ /\ wlog' = Append(wlog, [ev |-> "purchase_domain", answer |-> "ok",
                                     response |-> ""])
          /\ wpc' = "returned"
          /\ wout' = [status |-> "purchased", kind |-> "", msg |-> ""]
       \/ \E kind \in PurchaseErrors :
            /\ wlog' = Append(wlog, [ev |-> "purchase_domain", answer |-> kind,
                                     response |-> ""])
            /\ WRaise(kind, kind)
    /\ UNCHANGED <<wreq, pipeVars, retryVars, dnsVars, runVars>>

InitPurchase ==
    /\ doubles = {}
    /\ req = [domain |-> "my-app.com", install |-> FALSE,
              contact_info |-> FALSE, cert_timeout_minutes |-> 0,
              distribution_timeout_minutes |-> 0]
    /\ pc = "off"
    /\ PipeStart
    /\ RetryIdle
    /\ DnsIdle
    /\ RunsIdle
    /\ wpc = "validate"
    /\ wreq \in WorkflowRequests
    /\ wlog = <<>>
    /\ wout = NoPurchase

NextPurchase ==
    \/ Validate
    \/ CheckAvailability
    \/ Confirm
    \/ Purchase

SpecPurchase == InitPurchase /\ [][NextPurchase]_vars

(***************************************************************************)
(* Properties of deploy_full and of wait_for_certificate.                  *)
(***************************************************************************)
CallsOf(op) == {i \in 1..Len(calls) : calls[i].op = op}

Polls == {i \in 1..Len(log) : log[i].ev = "poll"}

InCertWait == loop = "wait_for_certificate"

\* C1: create_s3_distribution is called with a certificate ARN only after
\* wait_for_certificate was called for that ARN and a poll of that
\* certificate saw ISSUED; no distribution exists for a certificate that
\* was not seen ISSUED.
C1_DistributionOnlyAfterIssued ==
    /\ \A i \in CallsOf("create_s3_distribution") :
         /\ calls[i].certificate_arn \in issuedSeen
         /\ \E j \in CallsOf("wait_for_certificate") :
              j < i /\ calls[j].cert_arn = calls[i].certificate_arn
    /\ \A d \in distributions : d.certificate_arn \in issuedSeen

C1_Witness ==
    \E d \in distributions : d.certificate_arn \in issuedSeen /\ d.certificate_arn = cert_arn

\* C2: setup_cloudfront_dns is called only after create_s3_distribution has
\* returned a distribution in the same run, and with that distribution's
\* hostname; when the creation fails the zone holds no cut-over record.
C2_CutoverOnlyAfterDistribution ==
    /\ \A i \in CallsOf("setup_cloudfront_dns") :
         /\ \E j \in CallsOf("create_s3_distribution") : j < i
         /\ \E d \in distributions : calls[i].distribution_domain = DistDomainOf(d.id)
    /\ \A r \in zoneRecords :
         r.type = "A" => \E d \in distributions : r.value = DistDomainOf(d.id)
    /\ failedStep = "create_s3_distribution" =>
         /\ CallsOf("setup_cloudfront_dns") = {}
         /\ \A r \in zoneRecords : r.type # "A" /\ r.name # "www." \o req.domain

C2_Witness ==
    /\ CallsOf("setup_cloudfront_dns") # {}
    /\ \E r \in zoneRecords : r.type = "A" /\ r.name = req.domain

Ops == [i \in 1..Len(calls) |-> calls[i].op]

IsOptional(op) == op \in {"install_dependencies", "register_domain"}

IsRequired(op) == ~IsOptional(op)

HappyPath ==
    <<"run_build", "deploy_s3", "request_ssl_certificate",
      "get_acm_validation_records", "add_acm_dns_records",
      "wait_for_certificate", "create_s3_distribution",
      "setup_cloudfront_dns", "wait_for_distribution">>

\* C3: the calls made so far are always an initial part of run_build,
\* deploy_s3, request_ssl_certificate, get_acm_validation_records,
\* add_acm_dns_records, wait_for_certificate, create_s3_distribution,
\* setup_cloudfront_dns, wait_for_distribution, and a run that returns has
\* made each of them exactly once, in this order.
C3_HappyPathOrder ==
    LET core == SelectSeq(Ops, IsRequired) IN
    /\ Len(core) <= Len(HappyPath)
    /\ core = SubSeq(HappyPath, 1, Len(core))
    /\ pc = "done" => core = HappyPath

C3_Witness ==
    pc = "done" /\ Len(SelectSeq(Ops, IsRequired)) = 9

StepFailed == pc = "failed" /\ failedStep # "construct"

\* C4: when a step raises, deploy_full raises one OrchestratorError whose
\* message is the text of the original exception and whose cause is that
\* exception; the failing step's call is the last call made, the transition
\* that fails the run changes nothing at the provider, and nothing is called
\* or changed afterwards.
C4_FailureWrapsAndStops ==
    /\ [](StepFailed =>
            /\ error.kind = "OrchestratorError"
            /\ error.cause.kind # "" /\ error.cause.kind # "OrchestratorError"
            /\ error.msg = Str(error.cause)
            /\ result = NoResult
            /\ calls # <<>> /\ calls[Len(calls)].op = failedStep)
    /\ [][/\ (pc # "failed" /\ pc' = "failed") => provider' = provider
          /\ pc = "failed" => UNCHANGED <<pc, calls, error, provider>>]_vars

C4_Witness ==
    /\ StepFailed
    /\ failedStep = "setup_cloudfront_dns"
    /\ distributions # {} /\ zoneRecords # {} /\ certStatus[cert_arn] = "ISSUED"

\* C5: a run that returns gives url = "https://" + domain, the identifier and
\* hostname of the distribution CloudFront created, and the ARN of the
\* certificate ACM answered with; and it returns only after a poll of
\* wait_for_distribution saw "Deployed".
C5_ResultEchoesIdentifiers ==
    pc = "done" =>
        /\ result.url = "https://" \o req.domain
        /\ \E d \in distributions :
             /\ distributions = {d}
             /\ result.distribution_id = d.id
             /\ result.distribution_domain = DistDomainOf(d.id)
             /\ result.certificate_arn = d.certificate_arn
        /\ certStatus[result.certificate_arn] # "NONE"
        /\ \A a \in CertArns : certStatus[a] # "NONE" => a = result.certificate_arn
        /\ loop = "wait_for_distribution" /\ outcome = "returned"
        /\ log # <<>> /\ log[Len(log)] = Poll("Deployed")
        /\ error = NoError

C5_Witness ==
    pc = "done" /\ result.url = "https://shop.io" /\ result.distribution_id \in DistIds

\* C6 as stated: wait_for_certificate returns normally exactly when the
\* certificate is ISSUED before the deadline passes.  The provider stops
\* changing when the run ends, so a certificate that is ISSUED in a state
\* where the wait has ended became ISSUED before the deadline passed.  Waits
\* ended by a failed poll are left out.
C6_ReturnsIffIssuedBeforeDeadline ==
    (InCertWait /\ outcome \in {"returned", "terminal", "timeout"}) =>
        (outcome = "returned" <=> certStatus[cert_arn] = "ISSUED")

\* C6 amended: wait_for_certificate returns normally exactly when one of
\* its polls, made before the deadline, sees ISSUED; that poll is its last.
C6_ReturnsIffPollSawIssued ==
    InCertWait =>
        /\ outcome = "returned" <=>
             \E i \in Polls : log[i].status = "ISSUED" /\ log[i].at < deadline
        /\ \A i \in Polls : log[i].status = "ISSUED" => i = Len(log)
        /\ outcome = "returned" => failedStep # "wait_for_certificate"

C6_Witness ==
    InCertWait /\ outcome = "returned" /\ Len(log) >= 3

\* C7: wait_for_certificate raises the terminal-state failure exactly when a
\* poll sees FAILED, REVOKED or EXPIRED, and that poll is the last thing the
\* wait does: no poll and no sleep follows it.
C7_TerminalRaisedAtThatPoll ==
    InCertWait =>
        /\ outcome = "terminal" <=> \E i \in Polls : log[i].status \in TerminalStatuses
        /\ \A i \in Polls : log[i].status \in TerminalStatuses => i = Len(log)
        /\ outcome = "terminal" =>
             /\ pc = "failed" /\ failedStep = "wait_for_certificate"
             /\ error.cause = Exc(TerminalStateError,
                    "Certificate entered terminal state: " \o log[Len(log)].status)

C7_Witness ==
    /\ InCertWait /\ outcome = "terminal"
    /\ Len(log) >= 3
    /\ now + CertPollInterval < deadline

PendingLike(status) == status \in CertStatuses \ (TerminalStatuses \cup {"ISSUED"})

\* C8: wait_for_certificate raises the timeout failure exactly when the
\* deadline has passed and every poll made so far saw a status that is
\* neither ISSUED nor FAILED, REVOKED or EXPIRED.
C8_TimeoutIffDeadlinePassedWhilePending ==
    InCertWait =>
        /\ outcome = "timeout" <=>
             (now >= deadline /\ \A i \in Polls : PendingLike(log[i].status))
        /\ outcome = "timeout" =>
             /\ pc = "failed" /\ failedStep = "wait_for_certificate"
             /\ error.cause = CertTimeout(req.cert_timeout_minutes)

C8_Witness ==
    /\ InCertWait /\ outcome = "timeout"
    /\ Cardinality(Polls) >= 2
    /\ \E i \in Polls : log[i].status = "VALIDATION_TIMED_OUT"

\* C9 as stated: the failure of a wait that timed out is of another kind
\* than the failure of a wait that met a terminal status, at
\* wait_for_certificate (the cause) and at deploy_full (the error raised).
C9_TimeoutKindDiffersFromTerminalKind ==
    /\ (InCertWait /\ outcome = "timeout") =>
          error.cause.kind # TerminalStateError
    /\ (InCertWait /\ outcome = "terminal") =>
          error.cause.kind # WaitTimeoutError

(***************************************************************************)
(* Properties of the retry-wrapped registrar operations (SpecRetry).       *)
(***************************************************************************)
OwnRequests ==
    {i \in 1..Len(requests) :
        requests[i].endpoint = rop /\ requests[i].page = 1}
OtherRequests == (1..Len(requests)) \ OwnRequests
IsTransient(a) == make_request(rop, a) \in {"NetworkError", "ServerError"}
FailsThenSucceeds(N) ==
    /\ \A i \in 1..(N - 1) : IsTransient(script[i])
    /\ make_request(rop, script[N]) = "ok"
    /\ \A i \in OtherRequests : make_request(rop, requests[i].answer) = "ok"

\* C10: for every retry-wrapped registrar operation that sends a request, and
\* every N from 1 to its attempt ceiling: when the registrar answers the
\* first N-1 requests of the operation with a network or server error and
\* the N-th with success (and every other request of the call succeeds), the
\* finished call has returned the success value and has sent its own request
\* exactly N times.
C10_TransientThenSuccessReturns ==
    \A N \in 1..stop_after_attempt(rop) :
        (rpc = "done" /\ OwnRequests # {} /\ FailsThenSucceeds(N))
            => /\ rresult.status = "returned"
               /\ Cardinality(OwnRequests) = N

TerminalKinds ==
    {"AuthenticationError", "DomainNotFoundError", "DomainNotAvailableError",
     "ValidationError", "InsufficientFundsError"}
FirstRequestTerminal ==
    /\ Len(attempts) >= 1
    /\ OwnRequests # {}
    /\ make_request(rop, script[1]) \in TerminalKinds

MutatingOps ==
    {"GoDaddy.purchase_domain", "DNSimple.purchase_domain",
     "DNSimple.create_contact"}
ReadOps ==
    {"GoDaddy.check_availability", "GoDaddy.suggest_domains",
     "GoDaddy.get_domains", "GoDaddy.get_domain_details",
     "DNSimple.get_domain_prices", "DNSimple.check_availability",
     "DNSimple.suggest_domains", "DNSimple.get_domains",
     "DNSimple.get_domain_details"}

\* C12: the attempt ceiling of every mutating registrar call (purchase_domain
\* of both registrars, DNSimple create_contact) is strictly smaller than the
\* ceiling of every read-type call, and a finished mutating call has made
\* fewer attempts than the read ceiling.
C12_MutatingCeilingBelowReadCeiling ==
    rop \in MutatingOps =>
        \A r \in ReadOps :
            /\ stop_after_attempt(rop) < stop_after_attempt(r)
            /\ Len(attempts) < stop_after_attempt(r)

TransientKinds == {"NetworkError", "ServerError", "RateLimitError"}

\* C13: every retry-wrapped registrar operation retries a network error, a
\* server error and a rate limit (429) alike, up to its ceiling, and
\* propagates any other error on its first occurrence: a call that ended
\* with a transient error has used all its attempts, and every attempt
\* before the last one failed with a transient error.
C13_AbsorbsAllTransientKinds ==
    /\ \A i \in 1..(Len(attempts) - 1) : attempts[i] \in TransientKinds
    /\ (rpc = "done" /\ rresult.status = "raised"
            /\ rresult.kind \in TransientKinds)
        => Len(attempts) = stop_after_attempt(rop)

AllAttemptsTransient ==
    /\ rpc = "done"
    /\ Len(attempts) = stop_after_attempt(rop)
    /\ \A i \in 1..Len(attempts) : attempts[i] \in TransientKinds

\* C14: when every attempt of a retry-wrapped operation up to its ceiling
\* failed with a transient error, the caller receives the exception raised
\* by the last attempt itself (its kind, its message), not a wrapper and not
\* the exception of an earlier attempt; and no call makes more attempts, or
\* sends its request more often, than its ceiling.
C14_LastErrorReachesCaller ==
    /\ Len(attempts) <= stop_after_attempt(rop)
    /\ Cardinality(OwnRequests) <= stop_after_attempt(rop)
    /\ AllAttemptsTransient =>
           /\ rresult.status = "raised"
           /\ rresult.attempt = stop_after_attempt(rop)
           /\ rresult.kind = attempts[stop_after_attempt(rop)]

C14_Witness ==
    /\ rop = "DNSimple.check_availability"
    /\ AllAttemptsTransient
    /\ attempts = <<"ServerError", "RateLimitError", "NetworkError">>
    /\ rresult.kind = "NetworkError"

Answered == {requests[i].answer : i \in 1..Len(requests)}
TaxonomyKind(a) ==
    CASE a \in {401, 403} -> "AuthenticationError"
      [] a = 404 -> "DomainNotFoundError"
      [] a \in {422, 409} -> "DomainNotAvailableError"
      [] a = 429 -> "RateLimitError"
      [] a \in {Timeout, ConnectionError} -> "NetworkError"
      [] OTHER -> IF 500 <= a /\ a < 600 THEN "ServerError" ELSE "unlisted"

\* C15: the _make_request of the registrar that was called maps every
\* answer of the table to the table's error kind: 401 and 403 to
\* authentication, 404 to not-found, 422 and 409 to domain-unavailable, 429
\* to rate-limited, every 5xx to server error, connection failures and
\* timeouts to network error.
C15_StatusMapsToTaxonomy ==
    \A i \in 1..Len(requests) :
        TaxonomyKind(requests[i].answer) # "unlisted" =>
            make_request(requests[i].endpoint, requests[i].answer)
                = TaxonomyKind(requests[i].answer)

\* C16: GoDaddyClient._make_request and DNSimpleClient._make_request turn
\* the same answer (HTTP status code or transport failure) into the same
\* error kind.
C16_BothClientsClassifyAlike ==
    \A a \in Answered : GoDaddy_make_request(a) = DNSimple_make_request(a)

(***************************************************************************)
(* Properties of AWSDomainService (SpecDns).                               *)
(***************************************************************************)
Alone(c) == \A o \in Callers \ {c} : dret[o] = <<>> /\ dpc[o] = "idle"
NamedLike(zone, D) == zone.Name.base = D.base
Existed(D) ==
    \E i \in 1..Len(hostedZones) :
        hostedZones[i].CallerReference = 0 /\ NamedLike(hostedZones[i], D)
CreatedZones ==
    {i \in 1..Len(hostedZones) : hostedZones[i].CallerReference # 0}
TwoCallsSameDomain(c) ==
    /\ Alone(c)
    /\ Len(dret[c]) = 2
    /\ dret[c][1].call.domain = dret[c][2].call.domain

\* C17: when one caller has looked up the hosted zone of the same domain D
\* in two successive calls (nobody else using the account), both calls
\* returned the same zone identifier, a zone of D; the first call created
\* the zone exactly when no zone named D up to a trailing dot existed, the
\* second call created none, and at most one zone was created in all.
C17_SecondCallReusesZone ==
    \A c \in Callers :
        TwoCallsSameDomain(c) =>
            LET first == dret[c][1]
                second == dret[c][2]
            IN  /\ first.status = "returned" /\ second.status = "returned"
                /\ first.zone = second.zone
                /\ NamedLike(hostedZones[first.zone], first.call.domain)
                /\ first.call.created <=> ~Existed(first.call.domain)
                /\ ~second.call.created
                /\ Cardinality(CreatedZones) <= 1

C17_Witness ==
    /\ TwoCallsSameDomain("c1")
    /\ dret["c1"][1].call.op = "_get_or_create_hosted_zone"
    /\ dret["c1"][2].call.op = "_get_or_create_hosted_zone"
    /\ dret["c1"][1].call.created
    /\ Len(hostedZones) = 2

ZonesOf(D) == {i \in 1..Len(hostedZones) : NamedLike(hostedZones[i], D)}

\* C18: when two callers have each run one call for the same domain, however
\* their list and create requests interleaved, both calls returned, both
\* with the same zone identifier, and exactly one hosted zone exists for the
\* domain.
C18_ConcurrentCallersShareOneZone ==
    (/\ Len(dret["c1"]) = 1 /\ Len(dret["c2"]) = 1
     /\ dret["c1"][1].call.domain = dret["c2"][1].call.domain)
        => /\ dret["c1"][1].status = "returned"
           /\ dret["c2"][1].status = "returned"
           /\ dret["c1"][1].zone = dret["c2"][1].zone
           /\ Cardinality(ZonesOf(dret["c1"][1].call.domain)) = 1

SameWriteTwice(c) ==
    /\ TwoCallsSameDomain(c)
    /\ dret[c][1].call.op \in {"add_acm_dns_records", "setup_cloudfront_dns"}
    /\ dret[c][1].call.op = dret[c][2].call.op
    /\ dret[c][1].call.host = dret[c][2].call.host

\* C19: add_acm_dns_records and setup_cloudfront_dns send their changes with
\* action UPSERT: when one caller has applied the same validation or
\* cut-over record set twice in a row, the second application succeeded,
\* went to the same zone, and left the zone's records exactly as they were
\* after the first.
C19_UpsertTwiceSameRecords ==
    \A c \in Callers :
        SameWriteTwice(c) =>
            /\ ChangeAction = "UPSERT"
            /\ dret[c][1].status = "returned"
            /\ dret[c][2].status = "returned"
            /\ dret[c][2].zone = dret[c][1].zone
            /\ dret[c][2].batch = dret[c][1].batch
            /\ dret[c][2].records = dret[c][1].records
            /\ hostedZones[dret[c][1].zone].records = dret[c][1].records

C19_Witness ==
    /\ SameWriteTwice("c2")
    /\ dret["c2"][1].call.op = "add_acm_dns_records"
    /\ dret["c2"][2].status = "returned"
    /\ Cardinality(hostedZones[dret["c2"][2].zone].records) = 2

\* C20: a finished setup_cloudfront_dns has sent one change batch to the
\* hosted zone of its domain, holding exactly two records: an A alias
\* record for the apex domain whose target is the given distribution
\* hostname with the hosted-zone identifier Z2FDTNDATAQYW2, and a CNAME
\* record for www.<domain> whose value is the same hostname.
C20_CutoverWritesAliasAndWww ==
    \A c \in Callers : \A i \in 1..Len(dret[c]) :
        LET done == dret[c][i]
            domain == Text(done.call.domain)
        IN  (done.call.op = "setup_cloudfront_dns" /\ done.status = "returned")
            => /\ NamedLike(hostedZones[done.zone], done.call.domain)
               /\ Len(done.batch) = 2
               /\ done.batch[1] =
                     [name |-> domain, type |-> "A", value |-> done.call.host,
                      alias |-> "Z2FDTNDATAQYW2"]
               /\ done.batch[2] =
                     [name |-> "www." \o domain, type |-> "CNAME",
                      value |-> done.call.host, alias |-> ""]
               /\ {done.batch[1], done.batch[2]} \subseteq done.records

C20_Witness ==
    \E c \in Callers :
        /\ Len(dret[c]) >= 1
        /\ dret[c][1].call.op = "setup_cloudfront_dns"
        /\ dret[c][1].status = "returned"
        /\ dret[c][1].call.created
        /\ Cardinality(hostedZones[dret[c][1].zone].records) = 2

(***************************************************************************)
(* Further properties of deploy_full and of the polling loops (Spec).      *)
(***************************************************************************)
\* C22: every distribution a deploy_full run has created carries the
\* certificate ARN that request_ssl_certificate returned earlier in the same
\* run, as its ACM viewer certificate, and the redirect-to-https policy; the
\* allow-all policy and the CloudFront default certificate never appear.
C22_RunNeverCreatesInsecureDistribution ==
    /\ \A i \in CallsOf("create_s3_distribution") :
         /\ calls[i].certificate_arn = cert_arn
         /\ cert_arn \in CertArns
         /\ \E j \in CallsOf("request_ssl_certificate") : j < i
    /\ \A d \in distributions :
         /\ d.certificate_arn = cert_arn
         /\ d.viewer_protocol_policy = "redirect-to-https"
         /\ d.viewer_certificate.ACMCertificateArn = cert_arn
         /\ ~d.viewer_certificate.CloudFrontDefaultCertificate

C22_Witness ==
    /\ pc = "done"
    /\ \E d \in distributions :
         d.alias = req.domain /\ d.viewer_protocol_policy = "redirect-to-https"

InRecordsWait == loop = "get_acm_validation_records"

\* C23: get_acm_validation_records returns exactly when a poll sees at least
\* one validation record, at that poll (the first to see one), and what it
\* returns is the non-empty list of the name/value records ACM has
\* published; it raises the "not available after" error exactly when the
\* deadline has passed and every poll saw no record.
C23_RecordsReturnedAtFirstSighting ==
    InRecordsWait =>
        /\ outcome = "returned" <=> \E i \in Polls : log[i].status = "records"
        /\ \A i \in Polls : log[i].status = "records" => i = Len(log)
        /\ outcome = "returned" =>
             /\ validation_records # <<>>
             /\ \A k \in 1..Len(validation_records) :
                  \E n \in dvReady :
                      validation_records[k]
                          = [name |-> "_acm." \o n, value |-> "_token." \o n]
             /\ failedStep # "get_acm_validation_records"
        /\ outcome # "returned" => validation_records = <<>>
        /\ outcome = "timeout" <=>
             (now >= deadline /\ \A i \in Polls : log[i].status = "none")
        /\ outcome = "timeout" =>
             /\ pc = "failed" /\ failedStep = "get_acm_validation_records"
             /\ error.cause = RecordsTimeout

C23_Witness ==
    /\ InRecordsWait /\ outcome = "returned"
    /\ Cardinality(Polls) >= 3
    /\ Len(validation_records) = 1

InDistWait == loop = "wait_for_distribution"

\* C24: wait_for_distribution returns exactly when a poll made before the
\* deadline sees Deployed, at that poll; it raises the "not deployed within"
\* error exactly when the deadline has passed and every poll saw another
\* status; no status of the distribution makes it fail in any other way.
C24_DistributionWaitReturnsIffDeployedSeen ==
    InDistWait =>
        /\ outcome = "returned" <=> \E i \in Polls : log[i].status = "Deployed"
        /\ \A i \in Polls :
             /\ log[i].at < deadline
             /\ log[i].status = "Deployed" => i = Len(log)
        /\ outcome = "returned" => failedStep # "wait_for_distribution"
        /\ outcome = "timeout" <=>
             /\ now >= deadline
             /\ \A i \in Polls : log[i].status \notin {"Deployed", "ClientError"}
        /\ outcome = "timeout" =>
             /\ pc = "failed" /\ failedStep = "wait_for_distribution"
             /\ error.cause = DistTimeout(req.distribution_timeout_minutes)
        /\ failedStep = "wait_for_distribution" =>
             \/ outcome = "timeout"
             \/ outcome = "poll_error" /\ log[Len(log)].status = "ClientError"

C24_Witness ==
    /\ InDistWait /\ outcome = "returned"
    /\ Cardinality(Polls) >= 2
    /\ pc = "done"

\* The exceptions the code of one step can raise (for the two waits: with
\* the timeout of the request).
Raises(step) ==
    CASE step = "install_dependencies" -> {Exc("RuntimeError", "Install failed!")}
      [] step = "register_domain" ->
            {Exc("AWSDomainError", "Registration failed"),
             Exc("TypeError", "register_domain() got an unexpected keyword argument 'duration_years'")}
      [] step = "run_build" -> {Exc("RuntimeError", "Build failed!")}
      [] step = "deploy_s3" -> {Exc("DeploymentError", "S3 deployment failed")}
      [] step = "request_ssl_certificate" ->
            {Exc("AWSCloudFrontError", "Certificate request failed")}
      [] step = "get_acm_validation_records" ->
            {Exc("AWSCloudFrontError", "describe_certificate failed"), RecordsTimeout}
      [] step = "add_acm_dns_records" ->
            {Exc("AWSDomainError", "ACM DNS record creation failed"),
             Exc("AWSDomainError", "Hosted zone operation failed")}
      [] step = "wait_for_certificate" ->
            {Exc("AWSCloudFrontError", "describe_certificate failed"),
             CertTimeout(req.cert_timeout_minutes)}
            \cup {Exc(TerminalStateError, "Certificate entered terminal state: " \o st) :
                      st \in TerminalStatuses}
      [] step = "create_s3_distribution" ->
            {Exc("AWSCloudFrontError", "CloudFront creation failed")}
      [] step = "setup_cloudfront_dns" ->
            {Exc("AWSDomainError", "DNS setup failed"),
             Exc("AWSDomainError", "Hosted zone operation failed")}
      [] step = "wait_for_distribution" ->
            {Exc("AWSCloudFrontError", "get_distribution failed"),
             DistTimeout(req.distribution_timeout_minutes)}
      [] OTHER -> {}

\* The steps a caller holding only the OrchestratorError can take it from.
StepsRaising(err) ==
    {Steps[i] : i \in {k \in 1..Len(Steps) :
                          \E exc \in Raises(Steps[k]) :
                              OrchestratorError(exc) = err}}

\* C28: the OrchestratorError of a failed run names the failing step: what
\* the error carries (class, text, cause) is raised by the step that failed
\* and by no other step.
C28_ErrorNamesFailingStep ==
    StepFailed => StepsRaising(error) = {failedStep}

\* C29: install_dependencies is called iff install, register_domain iff
\* contact_info, both before run_build and in this order; register_domain
\* receives the domain, the contact_info and the registration duration, so
\* that the call is not refused for its arguments; no other step is skipped.
C29_OptionalStepsRunWhenAsked ==
    /\ \A i \in CallsOf("install_dependencies") : req.install
    /\ \A i \in CallsOf("register_domain") : req.contact_info
    /\ \A b \in CallsOf("run_build") :
         /\ req.install <=> \E i \in CallsOf("install_dependencies") : i < b
         /\ req.contact_info <=> \E r \in CallsOf("register_domain") : r < b
    /\ \A i \in CallsOf("install_dependencies"), r \in CallsOf("register_domain") : i < r
    /\ \A r \in CallsOf("register_domain") :
         /\ calls[r].domain = req.domain
         /\ Binds(calls[r].keywords, RegisterDomainParams)
    /\ failedStep = "register_domain" => error.cause.kind # "TypeError"
    /\ pc = "done" => SelectSeq(Ops, IsRequired) = HappyPath

\* the certificates and distributions the provider holds
Requested == {a \in CertArns : certStatus[a] # "NONE"}
Created == {id \in DistIds : distStatus[id] # "NONE"}

\* C30: every call that takes the certificate ARN takes the one
\* request_ssl_certificate obtained; add_acm_dns_records takes the non-empty
\* records get_acm_validation_records returned; setup_cloudfront_dns and
\* wait_for_distribution take the hostname and the identifier of the
\* distribution created; the two waits take the request's timeouts.
C30_OutputsThreadedToInputs ==
    /\ \A i \in CallsOf("get_acm_validation_records") \cup CallsOf("wait_for_certificate") :
         /\ Requested = {calls[i].cert_arn}
         /\ \E j \in CallsOf("request_ssl_certificate") : j < i
    /\ \A i \in CallsOf("create_s3_distribution") :
         Requested = {calls[i].certificate_arn}
    /\ \A i \in CallsOf("add_acm_dns_records") :
         /\ \E j \in CallsOf("get_acm_validation_records") : j < i
         /\ calls[i].validation_records = validation_records
         /\ validation_records # <<>>
         /\ \A k \in 1..Len(validation_records) :
              \E n \in dvReady : validation_records[k] = ValidationRecord(n)
    /\ \A i \in CallsOf("setup_cloudfront_dns") :
         /\ Created = {dist_id}
         /\ calls[i].distribution_domain = DistDomainOf(dist_id)
    /\ \A i \in CallsOf("wait_for_distribution") :
         /\ Created = {calls[i].distribution_id}
         /\ calls[i].timeout_minutes = req.distribution_timeout_minutes
         /\ InDistWait => deadline = req.distribution_timeout_minutes * SecondsPerMinute
    /\ \A i \in CallsOf("wait_for_certificate") :
         /\ calls[i].timeout_minutes = req.cert_timeout_minutes
         /\ InCertWait => deadline = req.cert_timeout_minutes * SecondsPerMinute

C30_Witness ==
    /\ pc = "done"
    /\ req.cert_timeout_minutes # req.distribution_timeout_minutes
    /\ CallsOf("wait_for_distribution") # {}
    /\ CallsOf("add_acm_dns_records") # {}

(***************************************************************************)
(* Properties of runs that share one AWS account (SpecRuns).               *)
(***************************************************************************)
\* C21: a distribution created with a certificate has the redirect-to-https
\* policy and that ARN as its ACM viewer certificate; one created without
\* has the allow-all policy and the CloudFront default certificate; the two
\* are never mixed.
C21_PolicyAndCertificateGoTogether ==
    \A d \in cfDistributions :
        /\ d.certificate_arn # "" =>
             /\ d.viewer_protocol_policy = "redirect-to-https"
             /\ d.viewer_certificate.ACMCertificateArn = d.certificate_arn
             /\ ~d.viewer_certificate.CloudFrontDefaultCertificate
        /\ d.certificate_arn = "" =>
             /\ d.viewer_protocol_policy = "allow-all"
             /\ d.viewer_certificate.CloudFrontDefaultCertificate
             /\ d.viewer_certificate.ACMCertificateArn = ""

C21_Witness ==
    /\ \E d \in cfDistributions : d.certificate_arn = ""
    /\ \E d \in cfDistributions : d.certificate_arn # ""

DeployRuns == {r \in Runs : runs[r].kind = "deploy_full"}
Rerun == {r \in DeployRuns : runs[r].prior}
LeftBehind == {"CNAMEAlreadyExists", "DistributionAlreadyExists",
               "HostedZoneAlreadyExists"}

\* C25: a deploy_full run started for a domain after an earlier run for that
\* domain failed sends the same idempotency token, uses the hosted zone the
\* earlier run used, leaves one record set per name and type, and is not
\* refused by a provider because of a resource the earlier run created.
C25_RerunAfterFailureConverges ==
    \A r \in Rerun :
        LET first == Other(r) IN
        /\ runs[r].token # <<>> /\ runs[first].token # <<>>
              => runs[r].token = runs[first].token
        /\ runs[r].zone # 0 /\ runs[first].zone # 0
              => runs[r].zone = runs[first].zone
        /\ Cardinality({z \in r53Zones : z.name = runs[r].domain}) <= 1
        /\ \A z \in r53Zones : \A a, b \in z.records :
              (a.name = b.name /\ a.type = b.type) => a = b
        /\ runs[r].cause \notin LeftBehind

C27_RunsForDifferentDomainsIndependent ==
    \A r \in DeployRuns :
        (Other(r) \in DeployRuns /\ runs[Other(r)].domain # runs[r].domain) =>
            /\ runs[r].cert_arn # "" =>
                 \E c \in certificates :
                     /\ c.arn = runs[r].cert_arn
                     /\ c.by = r /\ c.domain = runs[r].domain
            /\ runs[r].cause \notin LeftBehind

(***************************************************************************)
(* Further properties of the three waits.                                  *)
(***************************************************************************)
\* the poll interval of the wait in progress
PollInterval ==
    CASE loop = "get_acm_validation_records" -> RecordsPollInterval
      [] loop = "wait_for_certificate" -> CertPollInterval
      [] OTHER -> DistPollInterval
CeilDiv(a, b) == (a + b - 1) \div b

\* polls are made before the deadline, at most ceil(T/I) of them, with a
\* sleep of one interval between two polls
PollsBounded ==
    loop # "" =>
        /\ Cardinality(Polls) <= CeilDiv(deadline, PollInterval)
        /\ \A i \in Polls : log[i].at < deadline
        /\ \A i \in 1..Len(log) :
             /\ log[i].ev = (IF i % 2 = 1 THEN "poll" ELSE "sleep")
             /\ log[i].at = (i \div 2) * PollInterval

\* C31: every wait that was entered ends (returns or raises), whatever the
\* provider reports, and until then polls only before its deadline: at most
\* ceil(T/I) polls, one interval of sleep apart.
C31_WaitsEndWithinBoundedPolls ==
    /\ []PollsBounded
    /\ InWait ~> ~InWait

C31_Witness ==
    /\ InCertWait /\ outcome = "timeout"
    /\ deadline = 2 * SecondsPerMinute
    /\ Cardinality(Polls) = CeilDiv(deadline, CertPollInterval)

\* C32: a poll that fails with a ClientError is the last thing the wait
\* does: no poll and no sleep follows it, and the wait has raised
\* AWSCloudFrontError, however much time remains before the deadline.
C32_FailedPollEndsWait ==
    \A i \in 1..Len(log) :
        log[i].status = "ClientError" =>
            /\ i = Len(log)
            /\ outcome = "poll_error"
            /\ pc = "failed" /\ failedStep = loop
            /\ error.cause.kind = "AWSCloudFrontError"
            /\ now = log[i].at

C32_Witness ==
    /\ loop = "wait_for_distribution" /\ outcome = "poll_error"
    /\ Len(log) = 1
    /\ now + DistPollInterval < deadline

\* C33: whenever deploy_full has raised, what it raised is an
\* OrchestratorError wrapping the failure, the failure to construct the
\* DeploymentService included.
C33_OnlyOrchestratorErrorEscapes ==
    pc = "failed" =>
        /\ error.kind = "OrchestratorError"
        /\ error.cause # NoExc

\* C34: the list get_acm_validation_records returned holds the validation
\* record of every name on the certificate, and so do the records written
\* to the zone by the time wait_for_certificate is called.
C34_RecordsCoverEveryName ==
    LET names == CertNames(req.domain) IN
    /\ (InRecordsWait /\ outcome = "returned") =>
          \A i \in 1..Len(names) :
              \E k \in 1..Len(validation_records) :
                  validation_records[k] = ValidationRecord(names[i])
    /\ CallsOf("wait_for_certificate") # {} =>
          \A i \in 1..Len(names) :
              \E rec \in zoneRecords :
                  /\ rec.type = "CNAME"
                  /\ rec.name = ValidationRecord(names[i]).name

\* C35: two runs for different domains send different idempotency tokens,
\* and the certificate a run holds was requested for the run's own domain.
C35_DistinctDomainsDistinctTokens ==
    /\ \A r, o \in Runs :
          (runs[r].token # <<>> /\ runs[o].token # <<>>
             /\ runs[r].domain # runs[o].domain)
          => runs[r].token # runs[o].token
    /\ \A r \in Runs : \A c \in certificates :
          c.arn = runs[r].cert_arn => c.domain = runs[r].domain

ContactRequests ==
    {i \in 1..Len(requests) : requests[i].endpoint = "DNSimple.create_contact"}

\* C37: one call of DNSimpleClient.purchase_domain, retries included, sends
\* at most one create-contact request.
C37_PurchaseCreatesOneContact ==
    rop = "DNSimple.purchase_domain" => Cardinality(ContactRequests) <= 1

Events(ev) == {i \in 1..Len(wlog) : wlog[i].ev = ev}
Ended == wpc \in {"returned", "raised"}

\* C38: a purchase request is sent only after an availability check of the
\* same call answered available and, if confirm_purchase is set, the user
\* then typed yes or y (in any case); a workflow whose check did not answer
\* available has raised DomainServiceError, one whose user typed anything
\* else has returned status "cancelled", and neither sent a purchase
\* request.
C38_PurchaseOnlyWhenAvailableAndConfirmed ==
    /\ Cardinality(Events("purchase_domain")) <= 1
    /\ \A i \in Events("purchase_domain") :
          \E j \in Events("check_availability") :
              /\ j < i /\ wlog[j].answer = "true"
              /\ wreq.confirm_purchase =>
                    \E k \in Events("input") :
                        /\ j < k /\ k < i
                        /\ wlog[k].response \in {"yes", "y", "YES", "Y", "Yes"}
    /\ \A j \in Events("check_availability") :
          wlog[j].answer # "true" =>
              /\ wpc = "raised" /\ wout.kind = "DomainServiceError"
              /\ Events("purchase_domain") = {}
    /\ \A k \in Events("input") :
          wlog[k].response \in {"no", "n", ""} =>
              /\ wpc = "returned" /\ wout.status = "cancelled"
              /\ Events("purchase_domain") = {}

C38_Witness ==
    /\ wreq.confirm_purchase /\ wout.status = "purchased"
    /\ \E k \in Events("input") : wlog[k].response = "YES"

====
